---------------------------- MODULE Spec2Model ----------------------------
(* Storefront client state machines of uxdsrini/quickoo:                   *)
(*   session store  (src/src/contexts/AuthContext.tsx),                    *)
(*   cart store     (src/unnamed/part_008, second CartProvider),           *)
(*   navigation     (src/src/App.tsx),                                     *)
(*   profile page   (src/unnamed/part_007, first ProfilePage),             *)
(*   auth page      (src/src/pages/AuthPage.tsx),                          *)
(*   checkout page  (src/src/pages/CheckoutPage.tsx),                      *)
(*   home page      (src/src/pages/HomePage.tsx: location and service).    *)
(*                                                                         *)
(* React is modelled as follows.  An action is one event delivered by the  *)
(* browser's event loop (a click, a promise that settles).  Its handler    *)
(* is a function from the rendered state to the updated state; the        *)
(* effects (useEffect) that the update triggers run to quiescence inside   *)
(* the same action, because React flushes them before the next event.     *)
(* A handler that awaits is split at each await into one action per        *)
(* continuation, the pending continuation being kept in a variable.        *)
EXTENDS Integers, Sequences, FiniteSets, Bags, TLC

-----------------------------------------------------------------------------
(* Bounds of the model *)

\* largest quantity a line is driven to (guards cap it)
MaxQty == 2
\* most profile loads (getDoc) in flight at once (guards cap it)
MaxLoads == 2
\* addDoc calls and success timers of the checkout page in flight at once
MaxOrderOps == 1

-----------------------------------------------------------------------------
(* Values *)

\* null / undefined of a string-valued or id-valued slot
None == "none"
\* null of an object-valued slot
Null == [null |-> TRUE]

Uids == {"u1", "u2"}
Shops == {"s1", "s2"}
Page == {"home", "shop", "cart", "checkout", "orders", "profile", "auth"}
Email(u) == "mail"

\* the two strings a text input is driven to: empty and non-empty
Texts == {"", "v"}
Truthy(x) == x # "" /\ x # None

ProfileFields == {"fullName", "phone", "address", "city", "pincode"}

\* the products the catalog store serves (shop_id is the shop page's shopId)
Product(i, sh) ==
  [id |-> i, name |-> "n", selling_price |-> 5, image_url |-> "img",
   shop_id |-> sh, unit |-> "kg"]
Products == {Product("p1", "s1"), Product("p2", "s1"), Product("p3", "s2")}
ProductIds == {p.id : p \in Products}

VARIABLES
  \* identity provider and profile document store (external collaborators)
  accounts, fbUser, docs,
  \* AuthProvider state
  user, userProfile, loading, profileLoading,
  \* asynchronous work in flight: profile loads, AuthPage.handleSubmit,
  \* ProfilePage.handleSave
  loads, authOp, saveOp,
  \* CartProvider state, the localStorage 'cart' key, the open confirm()
  items, currentShopId, stored, previousUserRef, isInitialLoad, confirmFor,
  \* AppContent state
  currentPage, selectedShopId, hasCheckedProfile, intendedDestination,
  showCartReviewMessage,
  \* ProfilePage form state
  profile,
  \* CheckoutPage state (its loading flag is named submitting here), the
  \* addDoc calls and success timers in flight
  formData, isEditingDelivery, orderPlaced, submitting, orderOps,
  \* the browser has navigator.geolocation; HomePage state (its loading
  \* flag is named shopsLoading here) and the location resolutions in
  \* flight
  geolocation, shopsLoading, locationName, locationLoading,
  showLocationPermissionAlert, showLocationSelector, serviceAvailable,
  locOps,
  \* observation: alert() calls made by the last event; the last event
  \* (with the order document it wrote to the orders collection, if any);
  \* addToCart calls since a start with an empty cart (-1: the cart was
  \* started non-empty or changed by something else);
  \* the page an anonymous user asked handleNavigation for, while the auth
  \* page it led to is still shown, or the sign-up made there is still being
  \* written, and no other event of the user has come between
  \* resumes made from the remembered target since the last request that
  \* remembered one (counted up to 2)
  alerts, last, addCalls, asked, resumes

vars == <<accounts, fbUser, docs, user, userProfile, loading, profileLoading,
          loads, authOp, saveOp, items, currentShopId, stored,
          previousUserRef, isInitialLoad, confirmFor, currentPage,
          selectedShopId, hasCheckedProfile, intendedDestination,
          showCartReviewMessage, profile, formData, isEditingDelivery,
          orderPlaced, submitting, orderOps, geolocation, shopsLoading,
          locationName, locationLoading, showLocationPermissionAlert,
          showLocationSelector, serviceAvailable, locOps, alerts, last,
          addCalls, asked, resumes>>

\* the state as one record, so that handlers and effects compose
St ==
  [accounts |-> accounts, fbUser |-> fbUser, docs |-> docs, user |-> user,
   userProfile |-> userProfile, loading |-> loading,
   profileLoading |-> profileLoading, loads |-> loads, authOp |-> authOp,
   saveOp |-> saveOp, items |-> items, currentShopId |-> currentShopId,
   stored |-> stored, previousUserRef |-> previousUserRef,
   isInitialLoad |-> isInitialLoad, confirmFor |-> confirmFor,
   currentPage |-> currentPage, selectedShopId |-> selectedShopId,
   hasCheckedProfile |-> hasCheckedProfile,
   intendedDestination |-> intendedDestination,
   showCartReviewMessage |-> showCartReviewMessage, profile |-> profile,
   formData |-> formData, isEditingDelivery |-> isEditingDelivery,
   orderPlaced |-> orderPlaced, submitting |-> submitting,
   orderOps |-> orderOps, geolocation |-> geolocation,
   shopsLoading |-> shopsLoading, locationName |-> locationName,
   locationLoading |-> locationLoading,
   showLocationPermissionAlert |-> showLocationPermissionAlert,
   showLocationSelector |-> showLocationSelector,
   serviceAvailable |-> serviceAvailable, locOps |-> locOps,
   alerts |-> <<>>, last |-> last, addCalls |-> addCalls, asked |-> asked,
   resumes |-> resumes]

\* the next state is s (evaluated once)
Install(s) ==
  \E r \in {s} :
    /\ accounts' = r.accounts /\ fbUser' = r.fbUser /\ docs' = r.docs
    /\ user' = r.user /\ userProfile' = r.userProfile /\ loading' = r.loading
    /\ profileLoading' = r.profileLoading /\ loads' = r.loads
    /\ authOp' = r.authOp /\ saveOp' = r.saveOp /\ items' = r.items
    /\ currentShopId' = r.currentShopId /\ stored' = r.stored
    /\ previousUserRef' = r.previousUserRef
    /\ isInitialLoad' = r.isInitialLoad /\ confirmFor' = r.confirmFor
    /\ currentPage' = r.currentPage /\ selectedShopId' = r.selectedShopId
    /\ hasCheckedProfile' = r.hasCheckedProfile
    /\ intendedDestination' = r.intendedDestination
    /\ showCartReviewMessage' = r.showCartReviewMessage
    /\ profile' = r.profile /\ formData' = r.formData
    /\ isEditingDelivery' = r.isEditingDelivery
    /\ orderPlaced' = r.orderPlaced /\ submitting' = r.submitting
    /\ orderOps' = r.orderOps
    /\ geolocation' = r.geolocation /\ shopsLoading' = r.shopsLoading
    /\ locationName' = r.locationName
    /\ locationLoading' = r.locationLoading
    /\ showLocationPermissionAlert' = r.showLocationPermissionAlert
    /\ showLocationSelector' = r.showLocationSelector
    /\ serviceAvailable' = r.serviceAvailable /\ locOps' = r.locOps
    /\ alerts' = r.alerts /\ last' = r.last
    /\ addCalls' = r.addCalls /\ asked' = r.asked /\ resumes' = r.resumes

Alert(s, msg) == [s EXCEPT !.alerts = Append(@, msg)]

-----------------------------------------------------------------------------
(* Session store: src/src/contexts/AuthContext.tsx *)

\* data.<k> || ''  (a missing or empty field reads as the empty string)
FieldOr(data, k) ==
  IF k \in DOMAIN data /\ Truthy(data[k]) THEN data[k] ELSE ""

\* the UserProfile object loadUserProfile builds from a user document
ProfileFromDoc(data) ==
  [fullName |-> FieldOr(data, "fullName"),
   phone |-> FieldOr(data, "phone"),
   address |-> FieldOr(data, "address"),
   city |-> FieldOr(data, "city"),
   pincode |-> FieldOr(data, "pincode"),
   email |-> FieldOr(data, "email"),
   profileCompleted |->
     IF "profileCompleted" \in DOMAIN data THEN data.profileCompleted
     ELSE FALSE]

\* mutant: the stored flag is trusted
ProfileCompleteByFlag(up) ==
  IF up = Null THEN FALSE ELSE up.profileCompleted

\* isProfileComplete() on a given userProfile
ProfileComplete(up) ==
  IF up = Null THEN FALSE
  ELSE /\ Truthy(up.fullName) /\ Truthy(up.phone) /\ Truthy(up.address)
       /\ Truthy(up.city) /\ Truthy(up.pincode)

isProfileComplete == ProfileComplete(userProfile)

\* loadUserProfile up to its await: uid resolved, profileLoading raised,
\* getDoc in flight.  kind names the continuation that awaits it.
StartLoad(s, uid, kind) ==
  IF uid = None THEN s
  ELSE [s EXCEPT !.profileLoading = TRUE,
                 !.loads = @ (+) SetToBag({[uid |-> uid, kind |-> kind]})]

\* mutant: a read that fails is left in flight, to be answered again
FinishLoadRetries(s, l, ok) ==
  LET d == s.docs[l.uid]
  IN IF ~ok THEN s
     ELSE [(IF d # Null THEN [s EXCEPT !.userProfile = ProfileFromDoc(d)]
            ELSE s)
             EXCEPT !.profileLoading = FALSE, !.loads = @ (-) SetToBag({l})]

\* mutant: a read that fails drops the profile held
FinishLoadResetsOnFailure(s, l, ok) ==
  LET d == s.docs[l.uid]
      s1 == IF ok /\ d # Null
            THEN [s EXCEPT !.userProfile = ProfileFromDoc(d)]
            ELSE [s EXCEPT !.userProfile = Null]
  IN [s1 EXCEPT !.profileLoading = FALSE,
                !.loads = @ (-) SetToBag({l})]

\* loadUserProfile after its await: the document read, or the read failed
FinishLoad(s, l, ok) ==
  LET d == s.docs[l.uid]
      s1 == IF ok /\ d # Null
            THEN [s EXCEPT !.userProfile = ProfileFromDoc(d)]
            ELSE s
  IN [s1 EXCEPT !.profileLoading = FALSE,
                !.loads = @ (-) SetToBag({l})]

\* one call of the onAuthStateChanged callback, up to its await
AuthCallback(s, u) ==
  IF u # None
  THEN StartLoad([s EXCEPT !.user = u], u, "auth")
  ELSE [s EXCEPT !.user = None, !.userProfile = Null, !.loading = FALSE]

\* The identity provider reports user u.  When the uid changes,
\* loadUserProfile is a new function, the subscription effect re-subscribes
\* and the provider calls the new listener with the current user again.
AuthListener(s, u) ==
  LET s1 == AuthCallback(s, u)
  IN IF s.user # u THEN AuthCallback(s1, u) ELSE s1

\* loads the listener starts when it reports u to a session holding user w
LoadsNeeded(w, u) == IF u = None THEN 0 ELSE IF w # u THEN 2 ELSE 1

-----------------------------------------------------------------------------
(* Navigation controller: src/src/App.tsx *)

\* mutant: an anonymous session keeps the remembered target
NavEffectKeepsTarget(s) ==
  IF s.user # None /\ ~s.loading /\ ~s.hasCheckedProfile
  THEN LET s1 == [s EXCEPT !.hasCheckedProfile = TRUE]
       IN IF s.currentPage = "auth"
          THEN IF s.intendedDestination # None
               THEN [s1 EXCEPT !.currentPage = s.intendedDestination,
                               !.intendedDestination = None]
               ELSE [s1 EXCEPT !.currentPage = "home"]
          ELSE s1
  ELSE IF s.user = None THEN [s EXCEPT !.hasCheckedProfile = FALSE] ELSE s

\* the post-login navigation effect
NavEffect(s) ==
  IF s.user # None /\ ~s.loading /\ ~s.hasCheckedProfile
  THEN LET s1 == [s EXCEPT !.hasCheckedProfile = TRUE]
       IN IF s.currentPage = "auth"
          THEN IF s.intendedDestination # None
               THEN LET s2 ==
                      IF s.intendedDestination = "checkout"
                         /\ ~ProfileComplete(s.userProfile)
                      THEN [Alert(s1, "complete-profile")
                              EXCEPT !.currentPage = "profile"]
                      ELSE [s1 EXCEPT
                              !.showCartReviewMessage =
                                 IF s.intendedDestination = "cart"
                                 THEN TRUE ELSE @,
                              !.currentPage = s.intendedDestination]
                    IN [s2 EXCEPT !.intendedDestination = None]
               ELSE [s1 EXCEPT !.currentPage = "home"]
          ELSE s1
  ELSE IF s.user = None
       THEN [s EXCEPT !.hasCheckedProfile = FALSE,
                      !.intendedDestination = None]
       ELSE s

handleNavigation(s, page) ==
  IF page \in {"profile", "orders", "checkout"} /\ s.user = None
  THEN [s EXCEPT !.intendedDestination =
                    IF page = "checkout" THEN "cart" ELSE page,
                 !.currentPage = "auth"]
  ELSE IF page = "checkout" /\ ~ProfileComplete(s.userProfile)
       THEN [Alert(s, "complete-profile")
               EXCEPT !.intendedDestination = "checkout",
                      !.currentPage = "profile"]
       ELSE [s EXCEPT !.currentPage = page]

\* mutant: a completed profile resumes at checkout itself
onProfileCompleteDirect(s, intended) ==
  IF intended = "checkout"
  THEN [s EXCEPT !.currentPage = "checkout", !.intendedDestination = None]
  ELSE [s EXCEPT !.currentPage = "home"]

\* the onProfileComplete callback, with the intendedDestination its
\* closure captured
onProfileComplete(s, intended) ==
  IF intended = "checkout"
  THEN [s EXCEPT !.showCartReviewMessage = TRUE, !.currentPage = "cart",
                 !.intendedDestination = None]
  ELSE [s EXCEPT !.currentPage = "home"]

-----------------------------------------------------------------------------
(* Cart store: src/unnamed/part_008 (CartProvider with the session effect) *)

\* the cart line addToCart builds from a product
NewLine(product) ==
  [id |-> product.id, name |-> product.name, price |-> product.selling_price,
   quantity |-> 1, image_url |-> product.image_url,
   shop_id |-> product.shop_id, unit |-> product.unit]

HasLine(its, pid) == \E i \in DOMAIN its : its[i].id = pid

\* mutant: the existing line is not looked for
UpsertAppend(its, product) == Append(its, NewLine(product))

\* the functional update of addToCart: increment the line or append one
Upsert(its, product) ==
  IF HasLine(its, product.id)
  THEN [i \in DOMAIN its |->
          IF its[i].id = product.id
          THEN [its[i] EXCEPT !.quantity = @ + 1] ELSE its[i]]
  ELSE Append(its, NewLine(product))

\* addToCart sees a cart of another shop and asks before going on
ShopConflict(s, product) ==
  s.currentShopId # None /\ s.currentShopId # product.shop_id

\* addToCart without conflict
addToCart(s, product) == [s EXCEPT !.items = Upsert(@, product)]

\* mutant: the answer of confirm() is not looked at
addToCartUnasked(s, product, answer) ==
  [s EXCEPT !.items = <<NewLine(product)>>]

\* addToCart after confirm() returned answer
addToCartAnswered(s, product, answer) ==
  IF answer THEN [s EXCEPT !.items = <<NewLine(product)>>] ELSE s

removeFromCart(s, pid) ==
  LET Keep(it) == it.id # pid
  IN [s EXCEPT !.items = SelectSeq(@, Keep)]

\* mutant: only a negative quantity removes the line
updateQuantityNegative(s, pid, q) ==
  IF q < 0 THEN removeFromCart(s, pid)
  ELSE [s EXCEPT !.items =
          [i \in DOMAIN @ |->
             IF @[i].id = pid THEN [@[i] EXCEPT !.quantity = q] ELSE @[i]]]

updateQuantity(s, pid, q) ==
  IF q <= 0 THEN removeFromCart(s, pid)
  ELSE [s EXCEPT !.items =
          [i \in DOMAIN @ |->
             IF @[i].id = pid THEN [@[i] EXCEPT !.quantity = q] ELSE @[i]]]

\* mutant: clearCart removes the persisted copy and leaves the items
clearCartStorageOnly(s) ==
  [s EXCEPT !.stored = [present |-> FALSE, value |-> <<>>]]

clearCart(s) == [s EXCEPT !.items = <<>>]

RECURSIVE SumQuantity(_)
SumQuantity(its) ==
  IF its = <<>> THEN 0 ELSE Head(its).quantity + SumQuantity(Tail(its))

getTotalItems == SumQuantity(items)

\* JSON.stringify of the item list: each object as its key/value pairs in
\* insertion order
Stringify(its) ==
  [i \in DOMAIN its |->
     << <<"id", its[i].id>>, <<"name", its[i].name>>,
        <<"price", its[i].price>>, <<"quantity", its[i].quantity>>,
        <<"image_url", its[i].image_url>>, <<"shop_id", its[i].shop_id>>,
        <<"unit", its[i].unit>> >>]

\* JSON.parse of such a text: each object rebuilt from its pairs
Parse(json) ==
  [i \in DOMAIN json |->
     [k \in {json[i][j][1] : j \in DOMAIN json[i]} |->
        json[i][CHOOSE j \in DOMAIN json[i] : json[i][j][1] = k][2]]]

NoKey == [present |-> FALSE, value |-> <<>>]
Key(json) == [present |-> TRUE, value |-> json]

\* the useState initialiser of items
Rehydrate(st) == IF st.present THEN Parse(st.value) ELSE <<>>

\* mutant: an emptied cart keeps the shop id it had
PersistEffectStaleShop(s) ==
  [s EXCEPT !.stored = Key(Stringify(s.items)),
            !.currentShopId =
               IF Len(s.items) > 0 THEN s.items[1].shop_id ELSE @]

\* mutant: an emptied cart is not written to storage
PersistEffectSkipEmpty(s) ==
  IF Len(s.items) > 0
  THEN [s EXCEPT !.stored = Key(Stringify(s.items)),
                 !.currentShopId = s.items[1].shop_id]
  ELSE [s EXCEPT !.currentShopId = None]

\* the effect on [items]: persist, and derive currentShopId
PersistEffect(s) ==
  [s EXCEPT !.stored = Key(Stringify(s.items)),
            !.currentShopId =
               IF Len(s.items) > 0 THEN s.items[1].shop_id ELSE None]

\* mutant: the sign-out reaction wipes the storage and leaves the items
SessionEffectKeepsItems(s) ==
  IF s.loading \/ s.isInitialLoad
  THEN IF ~s.loading /\ s.isInitialLoad
       THEN [s EXCEPT !.isInitialLoad = FALSE, !.previousUserRef = s.user]
       ELSE s
  ELSE LET s1 ==
             IF s.previousUserRef # None /\ s.user = None /\ Len(s.items) > 0
             THEN [Alert(s, "cart-cleared") EXCEPT !.stored = NoKey]
             ELSE s
       IN [s1 EXCEPT !.previousUserRef = s.user]

\* mutant: the reaction does not ask whether a user was signed in before
SessionEffectAnyAnonymous(s) ==
  IF s.loading \/ s.isInitialLoad
  THEN IF ~s.loading /\ s.isInitialLoad
       THEN [s EXCEPT !.isInitialLoad = FALSE, !.previousUserRef = s.user]
       ELSE s
  ELSE LET s1 ==
             IF s.user = None /\ Len(s.items) > 0
             THEN [Alert(s, "cart-cleared")
                     EXCEPT !.items = <<>>, !.stored = NoKey]
             ELSE s
       IN [s1 EXCEPT !.previousUserRef = s.user]

\* the effect on [user, loading, items.length, isInitialLoad]
SessionEffectAnyChange(s) ==
  IF s.loading \/ s.isInitialLoad
  THEN IF ~s.loading /\ s.isInitialLoad
       THEN [s EXCEPT !.isInitialLoad = FALSE, !.previousUserRef = s.user]
       ELSE s
  ELSE LET s1 ==
             IF s.previousUserRef # s.user /\ Len(s.items) > 0
             THEN [Alert(s, "cart-cleared")
                     EXCEPT !.items = <<>>, !.stored = NoKey]
             ELSE s
       IN [s1 EXCEPT !.previousUserRef = s.user]

SessionEffect(s) ==
  IF s.loading \/ s.isInitialLoad
  THEN IF ~s.loading /\ s.isInitialLoad
       THEN [s EXCEPT !.isInitialLoad = FALSE, !.previousUserRef = s.user]
       ELSE s
  ELSE LET s1 ==
             IF s.previousUserRef # None /\ s.user = None /\ Len(s.items) > 0
             THEN [Alert(s, "cart-cleared")
                     EXCEPT !.items = <<>>, !.stored = NoKey]
             ELSE s
       IN [s1 EXCEPT !.previousUserRef = s.user]

-----------------------------------------------------------------------------
(* Home page: src/src/pages/HomePage.tsx *)

UpperCase ==
  <<"A", "B", "C", "D", "E", "F", "G", "H", "I", "J", "K", "L", "M",
    "N", "O", "P", "Q", "R", "S", "T", "U", "V", "W", "X", "Y", "Z">>
LowerCase ==
  <<"a", "b", "c", "d", "e", "f", "g", "h", "i", "j", "k", "l", "m",
    "n", "o", "p", "q", "r", "s", "t", "u", "v", "w", "x", "y", "z">>

\* the characters that occur in the strings the home page handles
Alphabet ==
  {UpperCase[i] : i \in DOMAIN UpperCase}
    \cup {LowerCase[i] : i \in DOMAIN LowerCase} \cup {" ", "-", "@", "."}

\* String.prototype.toLowerCase, on one character and on a string
LowerChar ==
  [c \in Alphabet |->
     IF \E i \in DOMAIN UpperCase : UpperCase[i] = c
     THEN LowerCase[CHOOSE i \in DOMAIN UpperCase : UpperCase[i] = c]
     ELSE c]
toLowerCase(cs) == [i \in 1..Len(cs) |-> LowerChar[cs[i]]]

\* String.prototype.includes
includes(cs, part) ==
  \E i \in 1..(Len(cs) - Len(part) + 1) :
    SubSeq(cs, i, i + Len(part) - 1) = part

\* the characters of the strings the home page handles
Chars(str) ==
  CASE str = "Your Location" ->
         <<"Y", "o", "u", "r", " ", "L", "o", "c", "a", "t", "i", "o", "n">>
    [] str = "Location access denied" ->
         <<"L", "o", "c", "a", "t", "i", "o", "n", " ", "a", "c", "c", "e",
           "s", "s", " ", "d", "e", "n", "i", "e", "d">>
    [] str = "Location unavailable" ->
         <<"L", "o", "c", "a", "t", "i", "o", "n", " ", "u", "n", "a", "v",
           "a", "i", "l", "a", "b", "l", "e">>
    [] str = "Getting location..." ->
         <<"G", "e", "t", "t", "i", "n", "g", " ", "l", "o", "c", "a", "t",
           "i", "o", "n", ".", ".", ".">>
    [] str = "Ramagiri" ->
         <<"R", "a", "m", "a", "g", "i", "r", "i">>
    [] str = "ramagiri" ->
         <<"r", "a", "m", "a", "g", "i", "r", "i">>
    [] str = "RAMAGIRI" ->
         <<"R", "A", "M", "A", "G", "I", "R", "I">>
    [] str = "JNTUH College of Engineering-Manthani" ->
         <<"J", "N", "T", "U", "H", " ", "C", "o", "l", "l", "e", "g", "e",
           " ", "o", "f", " ", "E", "n", "g", "i", "n", "e", "e", "r", "i",
           "n", "g", "-", "M", "a", "n", "t", "h", "a", "n", "i">>
    [] str = "Centenary Colony" ->
         <<"C", "e", "n", "t", "e", "n", "a", "r", "y", " ", "C", "o", "l",
           "o", "n", "y">>
    [] str = "Manthani" ->
         <<"M", "a", "n", "t", "h", "a", "n", "i">>
    [] str = "jntuh college of engineering-manthani" ->
         <<"j", "n", "t", "u", "h", " ", "c", "o", "l", "l", "e", "g", "e",
           " ", "o", "f", " ", "e", "n", "g", "i", "n", "e", "e", "r", "i",
           "n", "g", "-", "m", "a", "n", "t", "h", "a", "n", "i">>
    [] str = "centenary colony" ->
         <<"c", "e", "n", "t", "e", "n", "a", "r", "y", " ", "c", "o", "l",
           "o", "n", "y">>
    [] str = "manthani" ->
         <<"m", "a", "n", "t", "h", "a", "n", "i">>
    [] str = "JNTUH College of Engineering-Manthani@Centenary Colony" ->
         <<"J", "N", "T", "U", "H", " ", "C", "o", "l", "l", "e", "g", "e",
           " ", "o", "f", " ", "E", "n", "g", "i", "n", "e", "e", "r", "i",
           "n", "g", "-", "M", "a", "n", "t", "h", "a", "n", "i", "@", "C",
           "e", "n", "t", "e", "n", "a", "r", "y", " ", "C", "o", "l", "o",
           "n", "y">>
    [] str = "Mumbai" ->
         <<"M", "u", "m", "b", "a", "i">>
    [] str = "Delhi" ->
         <<"D", "e", "l", "h", "i">>
    [] str = "Bangalore" ->
         <<"B", "a", "n", "g", "a", "l", "o", "r", "e">>
    [] str = "Hyderabad" ->
         <<"H", "y", "d", "e", "r", "a", "b", "a", "d">>
    [] str = "Chennai" ->
         <<"C", "h", "e", "n", "n", "a", "i">>
    [] str = "Kolkata" ->
         <<"K", "o", "l", "k", "a", "t", "a">>
    [] str = "Pune" ->
         <<"P", "u", "n", "e">>
    [] str = "Ahmedabad" ->
         <<"A", "h", "m", "e", "d", "a", "b", "a", "d">>
    [] str = "rAmAgIrI" ->
         <<"r", "A", "m", "A", "g", "I", "r", "I">>
    [] str = "Rama" ->
         <<"R", "a", "m", "a">>
    [] str = "Ramagiri Mandal" ->
         <<"R", "a", "m", "a", "g", "i", "r", "i", " ", "M", "a", "n", "d",
           "a", "l">>
    [] str = "Peddapalli" ->
         <<"P", "e", "d", "d", "a", "p", "a", "l", "l", "i">>
    [] str = "MANTHANI Town" ->
         <<"M", "A", "N", "T", "H", "A", "N", "I", " ", "T", "o", "w", "n">>
    [] str = "Colony" ->
         <<"C", "o", "l", "o", "n", "y">>

\* the labels that are not place names
YourLocation == "Your Location"
AccessDenied == "Location access denied"
Unavailable == "Location unavailable"
GettingLocation == "Getting location..."

availableCities ==
  <<"Ramagiri", "ramagiri", "RAMAGIRI",
    "JNTUH College of Engineering-Manthani", "Centenary Colony", "Manthani">>

checkServiceAvailabilityOneWay(s, city) ==
  [s EXCEPT !.serviceAvailable =
     \E i \in DOMAIN availableCities :
       includes(toLowerCase(Chars(city)),
                toLowerCase(Chars(availableCities[i])))]

checkServiceAvailability(s, city) ==
  LET isAvailable ==
        \E i \in DOMAIN availableCities :
          \/ includes(toLowerCase(Chars(city)),
                      toLowerCase(Chars(availableCities[i])))
          \/ includes(toLowerCase(Chars(availableCities[i])),
                      toLowerCase(Chars(city)))
  IN [s EXCEPT !.serviceAvailable = isAvailable]

availableKeywords ==
  <<"ramagiri", "jntuh college of engineering-manthani", "centenary colony",
    "manthani">>

isServiceAvailableInLocation(name) ==
  \E i \in DOMAIN availableKeywords :
    includes(toLowerCase(Chars(name)),
             toLowerCase(Chars(availableKeywords[i])))

\* the locations the selector's search offers
indianLocations ==
  <<"Ramagiri", "JNTUH College of Engineering-Manthani", "Centenary Colony">>

\* the centroid table of getLocationName; a position is modelled by the
\* name of the centroid it lies within the radius of, if any (the centroids
\* are further apart than two radii)
indianCities ==
  <<"Mumbai", "Delhi", "Bangalore", "Hyderabad", "Chennai", "Kolkata",
    "Pune", "Ahmedabad">>

\* HomePage is rendered for 'home' and for 'shop' without a selected shop
HomeMounted(s) ==
  \/ s.currentPage = "home"
  \/ s.currentPage = "shop" /\ s.selectedShopId = None

\* the useState defaults; with no HomePage instance the state is kept at
\* them and the continuations of the instance that is gone are dropped
\* (their setState calls do nothing)
HomeDefaults(s) ==
  [s EXCEPT !.shopsLoading = TRUE, !.locationName = YourLocation,
            !.locationLoading = FALSE,
            !.showLocationPermissionAlert = FALSE,
            !.showLocationSelector = FALSE, !.serviceAvailable = TRUE,
            !.locOps = EmptyBag]

AddOp(s, o) == [s EXCEPT !.locOps = @ (+) SetToBag({o})]
DropOp(s, o) == [s EXCEPT !.locOps = @ (-) SetToBag({o})]

\* requestLocation up to its first await; u is the user of the render
\* whose effect runs it
requestLocation(s, u) ==
  IF ~s.geolocation THEN [s EXCEPT !.locationName = Unavailable]
  ELSE AddOp(s, [stage |-> "permission", user |-> u, near |-> None])

\* getCurrentLocation, as called by the resolution o
getCurrentLocation(s, o) ==
  AddOp([s EXCEPT !.locationLoading = TRUE],
        [o EXCEPT !.stage = "position"])

\* the effect on [user, authLoading, locationName]
AlertEffect(s) ==
  IF /\ s.user # None /\ ~s.loading
     /\ s.locationName \in {AccessDenied, Unavailable}
  THEN [s EXCEPT !.showLocationPermissionAlert = TRUE]
  ELSE s

\* HomePage's state across a render: created with its defaults when the
\* page mounts, dropped when it unmounts; the location effect runs at
\* mount and when user changes, the alert effect at mount and when one of
\* its dependencies changes
LocationSync(old, s) ==
  IF ~HomeMounted(s) THEN HomeDefaults(s)
  ELSE LET fresh == ~HomeMounted(old)
           s1 == IF fresh \/ old.user # s.user
                 THEN requestLocation(s, s.user) ELSE s
       IN IF \/ fresh \/ old.user # s1.user \/ old.loading # s1.loading
             \/ old.locationName # s1.locationName
          THEN AlertEffect(s1) ELSE s1

HomeViewByServiceOnly(s) ==
  IF s.shopsLoading \/ s.loading THEN "loader"
  ELSE IF s.locationName = AccessDenied THEN "permission"
  ELSE IF ~s.serviceAvailable THEN "service-unavailable"
  ELSE "shops"

\* what HomePage renders: the loader, the location-permission page, the
\* service-unavailable page, or the shops (with the permission alert over
\* them when its flag is set)
HomeView(s) ==
  IF s.shopsLoading \/ s.loading THEN "loader"
  ELSE IF s.locationName = AccessDenied THEN "permission"
  ELSE IF /\ s.locationName \notin {YourLocation, Unavailable,
                                    GettingLocation, AccessDenied}
          /\ ~s.serviceAvailable
       THEN "service-unavailable"
  ELSE "shops"

-----------------------------------------------------------------------------
(* Rendering: effects run until no state they depend on changes *)

EmptyForm ==
  [fullName |-> "", phone |-> "", address |-> "", city |-> "", pincode |-> ""]

FormOf(up) ==
  [fullName |-> up.fullName, phone |-> up.phone, address |-> up.address,
   city |-> up.city, pincode |-> up.pincode]

\* ProfilePage's form state: created empty when the page mounts, dropped
\* when it unmounts, and overwritten by the effect on [userProfile] at mount
\* and whenever a new userProfile object is set
FormSync(old, s, profileSet) ==
  IF s.currentPage # "profile" THEN [s EXCEPT !.profile = EmptyForm]
  ELSE IF old.currentPage # "profile"
       THEN [s EXCEPT !.profile =
               IF s.userProfile # Null THEN FormOf(s.userProfile)
               ELSE EmptyForm]
       ELSE IF profileSet /\ s.userProfile # Null
            THEN [s EXCEPT !.profile = FormOf(s.userProfile)]
            ELSE s

EmptyDelivery == [name |-> "", phone |-> "", address |-> ""]

\* `${address}, ${city} - ${pincode}`: a text that is never empty
AddressLine(up) == "line"

\* CheckoutPage's effect on [user, userProfile, isProfileComplete]
Prefill(s) ==
  LET up == s.userProfile
  IN IF s.user # None /\ up # Null /\ ProfileComplete(up)
     THEN [s EXCEPT !.formData =
             [name |-> IF Truthy(up.fullName) THEN up.fullName ELSE @.name,
              phone |-> IF Truthy(up.phone) THEN up.phone ELSE @.phone,
              address |-> IF Truthy(up.address) THEN AddressLine(up)
                          ELSE @.address]]
     ELSE s

\* the pending continuations of a CheckoutPage that has unmounted: their
\* setState calls do nothing from then on
Unmounted(ops) ==
  LET Off(o) == [o EXCEPT !.mounted = FALSE]
  IN [o \in {Off(x) : x \in BagToSet(ops)} |->
        CopiesIn(o, ops) + CopiesIn([o EXCEPT !.mounted = TRUE], ops)]

\* CheckoutPage's state: created when the page mounts, dropped when it
\* unmounts; the prefill effect runs at mount and whenever the session
\* store renders anew
CheckoutSync(old, s, profileSet) ==
  IF s.currentPage # "checkout"
  THEN [s EXCEPT !.formData = EmptyDelivery, !.isEditingDelivery = FALSE,
                 !.orderPlaced = FALSE, !.submitting = FALSE,
                 !.orderOps = Unmounted(@)]
  ELSE IF \/ old.currentPage # "checkout" \/ profileSet
          \/ old.user # s.user \/ old.userProfile # s.userProfile
          \/ old.loading # s.loading
          \/ old.profileLoading # s.profileLoading
       THEN Prefill(s)
       ELSE s

\* F applied to the value of x (x is evaluated once)
Once(F(_), x) == CHOOSE r \in {F(v) : v \in {x}} : TRUE

Pass(s) ==
  Once(LAMBDA p : SessionEffect(p),
       Once(LAMBDA n : PersistEffect(n), Once(LAMBDA v : NavEffect(v), s)))

RECURSIVE Settle(_)
Settle(s) ==
  Once(LAMBDA v : Once(LAMBDA t : IF t = v THEN v ELSE Settle(t), Pass(v)),
       s)

Commit(old, s, profileSet) ==
  Once(LAMBDA o :
         Once(LAMBDA c : LocationSync(o, c),
              Once(LAMBDA f : CheckoutSync(o, f, profileSet),
                   Once(LAMBDA t : FormSync(o, t, profileSet), Settle(s)))),
       old)

-----------------------------------------------------------------------------
(* Start of the application *)

\* user documents found in the profile store at start: none; as signUp
\* writes it; as the ProfilePage variant without the flag writes it; as
\* handleSave writes it (complete, incomplete); a flag that disagrees
UserDoc(fn, ph, ad, ci, pi) ==
  [email |-> "mail", fullName |-> fn, phone |-> ph, address |-> ad,
   city |-> ci, pincode |-> pi, updatedAt |-> "t"]
WithFlag(d, b) ==
  [k \in DOMAIN d \cup {"profileCompleted"} |->
     IF k = "profileCompleted" THEN b ELSE d[k]]
SignUpDoc(email, fullName) ==
  [email |-> email, fullName |-> fullName, createdAt |-> "t"]
DocSamples ==
  { Null,
    SignUpDoc("mail", "v"),
    UserDoc("v", "v", "v", "v", "v"),
    WithFlag(UserDoc("v", "v", "v", "v", "v"), TRUE),
    WithFlag(UserDoc("v", "v", "", "v", "v"), FALSE),
    WithFlag(UserDoc("v", "", "v", "v", "v"), TRUE),
    WithFlag(UserDoc("", "v", "v", "v", "v"), TRUE),
    WithFlag(UserDoc("v", "v", "v", "", "v"), TRUE),
    WithFlag(UserDoc("v", "v", "v", "v", ""), TRUE) }

\* carts found under the 'cart' key at start: no key, or what an earlier
\* run of the store persisted
LineOf(pid, q) ==
  [NewLine(CHOOSE p \in Products : p.id = pid) EXCEPT !.quantity = q]
StoredSamples ==
  { NoKey, Key(Stringify(<<>>)),
    Key(Stringify(<<LineOf("p1", 2)>>)),
    Key(Stringify(<<LineOf("p2", 1), LineOf("p1", 1)>>)),
    Key(Stringify(<<LineOf("p3", 1)>>)) }

\* the state after the first render and its mount effects, given what the
\* browser and the back end hold
Boot(acc, fb, dcs, st, geo) ==
  LET s0 ==
    [accounts |-> acc, fbUser |-> fb, docs |-> dcs, user |-> None,
     userProfile |-> Null, loading |-> TRUE, profileLoading |-> FALSE,
     loads |-> EmptyBag, authOp |-> Null, saveOp |-> Null,
     items |-> Rehydrate(st), currentShopId |-> None, stored |-> st,
     previousUserRef |-> None, isInitialLoad |-> TRUE, confirmFor |-> Null,
     currentPage |-> "home", selectedShopId |-> None,
     hasCheckedProfile |-> FALSE, intendedDestination |-> None,
     showCartReviewMessage |-> FALSE, profile |-> EmptyForm,
     formData |-> EmptyDelivery, isEditingDelivery |-> FALSE,
     orderPlaced |-> FALSE, submitting |-> FALSE, orderOps |-> EmptyBag,
     geolocation |-> geo, shopsLoading |-> TRUE,
     locationName |-> YourLocation, locationLoading |-> FALSE,
     showLocationPermissionAlert |-> FALSE,
     showLocationSelector |-> FALSE, serviceAvailable |-> TRUE,
     locOps |-> EmptyBag,
     alerts |-> <<>>, last |-> [op |-> "start", key |-> st.present],
     addCalls |-> IF Rehydrate(st) = <<>> THEN 0 ELSE -1,
     asked |-> None, resumes |-> 0]
  IN LocationSync([s0 EXCEPT !.currentPage = "auth"], Settle(s0))

\* a start with one of the account sets Accs at the identity provider, the user fb
\* signed in there, and the user document d for u1
InitFrom(Accs, Fbs, Docs, Stores, Geos) ==
  \E acc \in Accs, fb \in Fbs, d \in Docs, st \in Stores, geo \in Geos :
    LET s == Boot(acc, fb, [u \in Uids |-> IF u = "u1" THEN d ELSE Null],
                  st, geo)
    IN /\ accounts = s.accounts /\ fbUser = s.fbUser /\ docs = s.docs
       /\ user = s.user /\ userProfile = s.userProfile
       /\ loading = s.loading /\ profileLoading = s.profileLoading
       /\ loads = s.loads /\ authOp = s.authOp /\ saveOp = s.saveOp
       /\ items = s.items /\ currentShopId = s.currentShopId
       /\ stored = s.stored /\ previousUserRef = s.previousUserRef
       /\ isInitialLoad = s.isInitialLoad /\ confirmFor = s.confirmFor
       /\ currentPage = s.currentPage /\ selectedShopId = s.selectedShopId
       /\ hasCheckedProfile = s.hasCheckedProfile
       /\ intendedDestination = s.intendedDestination
       /\ showCartReviewMessage = s.showCartReviewMessage
       /\ profile = s.profile /\ formData = s.formData
       /\ isEditingDelivery = s.isEditingDelivery
       /\ orderPlaced = s.orderPlaced /\ submitting = s.submitting
       /\ orderOps = s.orderOps
       /\ geolocation = s.geolocation /\ shopsLoading = s.shopsLoading
       /\ locationName = s.locationName
       /\ locationLoading = s.locationLoading
       /\ showLocationPermissionAlert = s.showLocationPermissionAlert
       /\ showLocationSelector = s.showLocationSelector
       /\ serviceAvailable = s.serviceAvailable /\ locOps = s.locOps
       /\ alerts = s.alerts /\ last = s.last
       /\ addCalls = s.addCalls /\ asked = s.asked /\ resumes = s.resumes

\* a start with the account of u1 existing
InitAt(Fbs, Docs, Stores, Geos) == InitFrom({{"u1"}}, Fbs, Docs, Stores, Geos)

\* a start in a browser that has navigator.geolocation
InitWith(Fbs, Docs, Stores) == InitAt(Fbs, Docs, Stores, {TRUE})

Init == InitWith({None, "u1"}, DocSamples, StoredSamples)

\* the event handlers below run on the rendered state; an open confirm()
\* blocks the event loop
Idle == confirmFor = Null

\* handleNavigation(page) remembers a target: it takes one of its two
\* detours
Remembers(page) ==
  \/ page \in {"profile", "orders", "checkout"} /\ user = None
  \/ page = "checkout" /\ user # None /\ ~isProfileComplete

\* the event whose handler returned h resumes from a remembered target: in
\* the navigation effect of its render, or in the onProfileComplete that a
\* finished save calls
Resumes(h, op) ==
  \/ /\ h.user # None /\ ~h.loading /\ ~h.hasCheckedProfile
     /\ h.currentPage = "auth" /\ h.intendedDestination # None
  \/ /\ op.op = "loadDone" /\ op.kind = "save"
     /\ saveOp # Null /\ saveOp.isComplete /\ saveOp.intended = "checkout"

\* the step an event makes: its handler's result h, rendered
Do(h, op, profileSet) ==
  \E s \in {Commit(St, [h EXCEPT !.last = op], profileSet)} :
     Install([s EXCEPT
                !.resumes =
                   IF op.op = "handleNavigation" /\ Remembers(op.page) THEN 0
                   ELSE IF Resumes(h, op)
                        THEN IF resumes < 2 THEN resumes + 1 ELSE 2
                        ELSE resumes,
                !.addCalls =
                   IF op.op = "addToCart" /\ addCalls >= 0
                   THEN addCalls + 1
                   ELSE IF s.items = items THEN addCalls ELSE -1,
                !.asked =
                   IF op.op = "handleNavigation" /\ user = None
                   THEN op.page
                   ELSE IF /\ op.op \in {"authInit", "loadDone",
                                          "authSubmit", "authResolve"}
                           /\ \/ s.currentPage = "auth" /\ s.user = None
                              \/ s.authOp # Null /\ s.authOp.stage = "write"
                        THEN asked ELSE None])

\* the page is reloaded: memory is lost, storage and the back end are kept
Restart ==
  Install([Boot(accounts, fbUser, docs, stored, geolocation)
             EXCEPT !.last = [op |-> "restart", key |-> stored.present]])

-----------------------------------------------------------------------------
(* Session events *)

AuthReady == ~(loading /\ user = None)
FreeLoads == MaxLoads - BagCardinality(loads)

\* the identity provider's first report after start
AuthInit ==
  /\ Idle /\ ~AuthReady
  /\ LoadsNeeded(user, fbUser) <= FreeLoads
  /\ Do(AuthListener(St, fbUser), [op |-> "authInit"], FALSE)

\* a profile load settles; the awaiting continuation runs (the event
\* records whether the session held a user with a complete profile before)
LoadContinue(s, l) ==
  IF l.kind = "auth" THEN [s EXCEPT !.loading = FALSE]
  ELSE IF s.saveOp = Null THEN s
       ELSE LET s1 == IF s.saveOp.isComplete
                      THEN onProfileComplete(s, s.saveOp.intended) ELSE s
            IN [s1 EXCEPT !.saveOp = Null]

LoadDone(l, ok) ==
  /\ Idle /\ BagIn(l, loads)
  /\ Do(LoadContinue(FinishLoad(St, l, ok), l),
        [op |-> "loadDone", kind |-> l.kind, ok |-> ok,
         complete |-> user # None /\ isProfileComplete],
        ok /\ docs[l.uid] # Null)

\* AuthPage.handleSubmit up to its await.  formOk: the passwords match
\* and the terms are accepted (checked for a sign-up only).
AuthSubmit(kind, u, formOk) ==
  /\ Idle /\ currentPage = "auth" /\ authOp = Null
  /\ IF kind = "signUp" /\ ~formOk
     THEN Do(Alert(St, "form-invalid"),
             [op |-> "authSubmit", kind |-> kind], FALSE)
     ELSE Do([St EXCEPT !.authOp =
                [kind |-> kind, uid |-> u, stage |-> "auth"]],
             [op |-> "authSubmit", kind |-> kind], FALSE)

\* signInWithEmailAndPassword / createUserWithEmailAndPassword settles.
\* On success the provider's user changes and the listener is called.
SignedIn(s, u) ==
  LET s1 == [s EXCEPT !.fbUser = u, !.accounts = @ \cup {u}]
  IN IF s.fbUser = u THEN s1 ELSE AuthListener(s1, u)

AuthResolve(ok) ==
  /\ Idle /\ authOp # Null /\ authOp.stage = "auth" /\ AuthReady
  /\ LET u == authOp.uid
         can == IF authOp.kind = "signIn" THEN u \in accounts
                ELSE u \notin accounts
         op == [op |-> "authResolve", kind |-> authOp.kind, ok |-> ok]
     IN IF ok
        THEN /\ can
             /\ LoadsNeeded(user, u) <= FreeLoads
             /\ Do([SignedIn(St, u) EXCEPT !.authOp =
                      IF authOp.kind = "signIn" THEN Null
                      ELSE [authOp EXCEPT !.stage = "write"]],
                   op, FALSE)
        ELSE Do([Alert(St, "auth-error") EXCEPT !.authOp = Null],
                op, FALSE)

\* signUp's setDoc settles; on success AuthPage calls onSignUpSuccess
SignUpWrite(ok) ==
  /\ Idle /\ authOp # Null /\ authOp.stage = "write"
  /\ LET u == authOp.uid
         op == [op |-> "signUpWrite", ok |-> ok]
     IN IF ok
        THEN Do([St EXCEPT !.docs[u] = SignUpDoc(Email(u), "v"),
                           !.authOp = Null,
                           !.currentPage = "profile"],
                op, FALSE)
        ELSE Do([Alert(St, "auth-error") EXCEPT !.authOp = Null],
                op, FALSE)

\* ProfilePage shows its form and its sign-out button
ProfileShown == currentPage = "profile" /\ user # None /\ ~profileLoading

\* ProfilePage.handleSignOut, confirmed: the provider drops the user, the
\* listener is called, then onSignOut shows the auth page
SignOut ==
  /\ Idle /\ ProfileShown
  /\ LET s1 == Settle(AuthListener([St EXCEPT !.fbUser = None], None))
     IN Do([s1 EXCEPT !.currentPage = "auth"],
           [op |-> "signOut", cart |-> items # <<>>,
            target |-> intendedDestination # None], FALSE)

-----------------------------------------------------------------------------
(* Navigation events *)

\* the bottom bar's Orders and Profile, and CartPage's checkout button
HandleNavigation(page) ==
  /\ Idle /\ page \in {"orders", "profile", "checkout"}
  /\ page = "checkout" => currentPage = "cart" /\ items # <<>>
  /\ Do(handleNavigation(St, page),
        [op |-> "handleNavigation", page |-> page], FALSE)

\* buttons that call setCurrentPage directly: header logo and bottom bar
\* (home, cart), header Sign In, HomePage's profile banner, back buttons
SetCurrentPage(page) ==
  /\ Idle /\ page \in {"home", "cart", "auth", "profile"}
  /\ page = "auth" => user = None
  /\ page = "profile" =>
       currentPage = "home" /\ user # None /\ ~isProfileComplete
  /\ Do([St EXCEPT !.currentPage = page],
        [op |-> "setCurrentPage", page |-> page], FALSE)

handleShopSelect(sh) ==
  /\ Idle /\ currentPage = "home"
  /\ Do([St EXCEPT !.selectedShopId = sh, !.currentPage = "shop"],
        [op |-> "handleShopSelect"], FALSE)

-----------------------------------------------------------------------------
(* Profile page events *)

\* typing into one field of the form
EditProfile(f, v) ==
  /\ Idle /\ ProfileShown
  /\ profile[f] # v
  /\ Do([St EXCEPT !.profile[f] = v],
        [op |-> "editProfile"], FALSE)

FormComplete(form) ==
  /\ Truthy(form.fullName) /\ Truthy(form.phone) /\ Truthy(form.address)
  /\ Truthy(form.city) /\ Truthy(form.pincode)

\* ProfilePage.handleSave up to its first await: what its closure holds
handleSave(s) ==
  [s EXCEPT !.saveOp =
     [stage |-> "write", uid |-> s.user, form |-> s.profile,
      isComplete |-> FormComplete(s.profile),
      intended |-> s.intendedDestination]]

SaveSubmit ==
  /\ Idle /\ ProfileShown /\ saveOp = Null
  /\ Do(handleSave(St), [op |-> "saveSubmit"], FALSE)

\* setDoc(..., {merge: true}): the written keys replace, the others stay
MergeDoc(old, new) ==
  LET o == IF old = Null THEN [k \in {} |-> ""] ELSE old
  IN [k \in DOMAIN o \cup DOMAIN new |->
        IF k \in DOMAIN new THEN new[k] ELSE o[k]]

SavedDoc(op) ==
  WithFlag([email |-> Email(op.uid), fullName |-> op.form.fullName,
            phone |-> op.form.phone, address |-> op.form.address,
            city |-> op.form.city, pincode |-> op.form.pincode,
            updatedAt |-> "t"], op.isComplete)

\* handleSave's setDoc settles: on success the profile is reloaded, on
\* failure the catch block alerts
SaveWrite(ok) ==
  /\ Idle /\ saveOp # Null /\ saveOp.stage = "write"
  /\ LET op == [op |-> "saveWrite", ok |-> ok]
     IN IF ok
        THEN /\ FreeLoads >= 1
             /\ Do(StartLoad(
                     [St EXCEPT
                        !.docs[saveOp.uid] = MergeDoc(@, SavedDoc(saveOp)),
                        !.saveOp.stage = "load"],
                     saveOp.uid, "save"),
                   op, FALSE)
        ELSE Do([Alert(St, "save-failed") EXCEPT !.saveOp = Null],
                op, FALSE)

-----------------------------------------------------------------------------
(* Cart events: calls of the store by the mounted pages *)

QuantityOf(its, pid) ==
  IF HasLine(its, pid)
  THEN its[CHOOSE i \in DOMAIN its : its[i].id = pid].quantity ELSE 0

\* ProductCard on the shop page: the products are those of the shop shown
AddToCart(p) ==
  /\ Idle /\ currentPage = "shop"
  /\ p.shop_id = selectedShopId
  /\ ~ShopConflict(St, p)
  /\ QuantityOf(items, p.id) < MaxQty
  /\ Do(addToCart(St, p), [op |-> "addToCart", hit |-> HasLine(items, p.id)], FALSE)

\* addToCart of a product of another shop: confirm() opens and blocks
AddToCartAsk(p) ==
  /\ Idle /\ currentPage = "shop"
  /\ p.shop_id = selectedShopId
  /\ ShopConflict(St, p)
  /\ Do([St EXCEPT !.confirmFor = p],
        [op |-> "addToCartAsk"], FALSE)

\* the user answers the confirm(); addToCart goes on
ConfirmAnswer(answer) ==
  /\ confirmFor # Null
  /\ Do([addToCartAnswered(St, confirmFor, answer)
           EXCEPT !.confirmFor = Null],
        [op |-> "confirmAnswer", answer |-> answer], FALSE)

CartShown == currentPage \in {"shop", "cart"}

RemoveFromCart(pid) ==
  /\ Idle /\ CartShown
  /\ Do(removeFromCart(St, pid), [op |-> "removeFromCart", hit |-> HasLine(items, pid)],
        FALSE)

UpdateQuantity(pid, q) ==
  /\ Idle /\ CartShown /\ q <= MaxQty
  /\ Do(updateQuantity(St, pid, q),
        [op |-> "updateQuantity", hit |-> HasLine(items, pid)], FALSE)

-----------------------------------------------------------------------------
(* Checkout page events: src/src/pages/CheckoutPage.tsx *)

\* the page shows the summary of the profile instead of the three inputs
UsesProfile(s) ==
  s.userProfile # Null /\ ProfileComplete(s.userProfile)
  /\ ~s.isEditingDelivery

\* the delivery details handleSubmit takes
Delivery(s) ==
  IF UsesProfile(s)
  THEN [name |-> s.userProfile.fullName, phone |-> s.userProfile.phone,
        address |-> AddressLine(s.userProfile)]
  ELSE s.formData

OrderData(s) ==
  LET d == Delivery(s)
  IN [userId |-> s.user, storeId |-> s.currentShopId,
      customerName |-> d.name, customerPhone |-> d.phone,
      deliveryAddress |-> d.address]

\* mutant: the cart's shop id is not asked for
handleSubmitAnyCart(s) ==
  IF s.user = None THEN Alert(s, "sign-in-to-order")
  ELSE LET d == Delivery(s)
       IN IF ~Truthy(d.name) \/ ~Truthy(d.phone) \/ ~Truthy(d.address)
          THEN Alert(s, "delivery-required")
          ELSE [s EXCEPT
                  !.submitting = TRUE,
                  !.orderOps = @ (+) SetToBag({[stage |-> "write",
                                                mounted |-> TRUE,
                                                order |-> OrderData(s)]})]

\* handleSubmit up to its await
handleSubmit(s) ==
  IF s.user = None THEN Alert(s, "sign-in-to-order")
  ELSE IF s.currentShopId = None THEN Alert(s, "no-items")
  ELSE LET d == Delivery(s)
       IN IF ~Truthy(d.name) \/ ~Truthy(d.phone) \/ ~Truthy(d.address)
          THEN Alert(s, "delivery-required")
          ELSE [s EXCEPT
                  !.submitting = TRUE,
                  !.orderOps = @ (+) SetToBag({[stage |-> "write",
                                                mounted |-> TRUE,
                                                order |-> OrderData(s)]})]

CheckoutShown == currentPage = "checkout" /\ ~orderPlaced
FormShown == CheckoutShown /\ ~(user # None /\ UsesProfile(St))

\* the Place Order button; the browser submits the form only when its
\* required inputs, if shown, are filled (the calls in flight are capped)
SubmitOrder ==
  /\ Idle /\ CheckoutShown /\ ~submitting
  /\ BagCardinality(handleSubmit(St).orderOps) <= MaxOrderOps
  /\ FormShown =>
       formData.name # "" /\ formData.phone # "" /\ formData.address # ""
  /\ Do(handleSubmit(St), [op |-> "submitOrder"], FALSE)

\* addDoc settles: the order is in the orders collection (the event records
\* the document written) and the cart is cleared, or the catch block alerts
OrderWrite(o, ok) ==
  /\ Idle /\ BagIn(o, orderOps) /\ o.stage = "write"
  /\ LET s0 == [St EXCEPT !.orderOps = @ (-) SetToBag({o})]
         s1 == IF o.mounted THEN [s0 EXCEPT !.submitting = FALSE] ELSE s0
         op == [op |-> "orderWrite", ok |-> ok, order |-> o.order]
     IN IF ok
        THEN LET s2 == IF o.mounted
                       THEN [s1 EXCEPT !.orderPlaced = TRUE,
                                       !.isEditingDelivery = FALSE]
                       ELSE s1
             IN Do([clearCart(s2) EXCEPT
                      !.orderOps = @ (+) SetToBag({[o EXCEPT
                                                      !.stage = "timer"]})],
                   op, FALSE)
        ELSE Do(Alert(s1, "order-failed"), op, FALSE)

\* two seconds after a placed order: onSuccess
OrderTimer(o) ==
  /\ Idle /\ BagIn(o, orderOps) /\ o.stage = "timer"
  /\ Do([St EXCEPT !.orderOps = @ (-) SetToBag({o}),
                   !.currentPage = "orders"],
        [op |-> "orderTimer"], FALSE)

\* the Edit button of the delivery summary
SetEditingDelivery ==
  /\ Idle /\ CheckoutShown /\ ~FormShown
  /\ Do([St EXCEPT !.isEditingDelivery = TRUE],
        [op |-> "editDelivery"], FALSE)

\* the Save button of the edited delivery details
SaveDelivery ==
  /\ Idle /\ CheckoutShown /\ isEditingDelivery
  /\ LET up == userProfile
         s1 == [St EXCEPT !.isEditingDelivery = FALSE]
     IN Do(IF up = Null THEN s1
           ELSE [s1 EXCEPT !.formData =
                   [name |-> up.fullName, phone |-> up.phone,
                    address |-> IF Truthy(up.address) THEN AddressLine(up)
                                ELSE @.address]],
           [op |-> "saveDelivery"], FALSE)

\* typing into one of the three delivery inputs
EditDelivery(f, v) ==
  /\ Idle /\ FormShown /\ formData[f] # v
  /\ Do([St EXCEPT !.formData[f] = v], [op |-> "editDelivery"], FALSE)

-----------------------------------------------------------------------------
(* Home page events *)

HomeShown == Idle /\ HomeMounted(St)

\* the getDocs of loadShops settles, either way
ShopsLoaded ==
  /\ HomeShown /\ shopsLoading
  /\ Do([St EXCEPT !.shopsLoading = FALSE], [op |-> "shopsLoaded"], FALSE)

\* the branches of requestLocation and of the error callback that set the
\* denied label
Denied(s, o) ==
  LET s1 == [s EXCEPT !.locationName = AccessDenied]
  IN IF o.user # None THEN [s1 EXCEPT !.showLocationPermissionAlert = TRUE]
     ELSE s1

\* what navigator.permissions.query answers: a state, or it throws
PermissionAnswers == {"granted", "prompt", "denied", "throws"}

PermissionAnswered(o, answer) ==
  /\ Idle /\ BagIn(o, locOps) /\ o.stage = "permission"
  /\ Do(IF answer = "denied" THEN Denied(DropOp(St, o), o)
        ELSE getCurrentLocation(DropOp(St, o), o),
        [op |-> "permission", answer |-> answer], FALSE)

\* getCurrentPosition calls its success callback, which calls
\* getLocationName: the first provider is asked
PositionFound(o, near) ==
  /\ Idle /\ BagIn(o, locOps) /\ o.stage = "position"
  /\ Do(AddOp(DropOp(St, o),
              [o EXCEPT !.stage = "provider1", !.near = near]),
        [op |-> "position", ok |-> TRUE], FALSE)

PositionErrors == {"PERMISSION_DENIED", "POSITION_UNAVAILABLE", "TIMEOUT"}

\* getCurrentPosition calls its error callback
PositionError(o, code) ==
  /\ Idle /\ BagIn(o, locOps) /\ o.stage = "position"
  /\ LET s == DropOp(St, o)
         s1 == IF code = "PERMISSION_DENIED" THEN Denied(s, o)
               ELSE [s EXCEPT !.locationName = Unavailable]
     IN Do([s1 EXCEPT !.locationLoading = FALSE],
           [op |-> "position", ok |-> FALSE], FALSE)

\* a provider's answer is usable: the response is ok and carries a place
\* name other than the placeholder (None: the fetch fails, the response is
\* not ok or its body does not parse)
Usable(city) == city # None /\ city # YourLocation

Named(s, city) ==
  checkServiceAvailability([s EXCEPT !.locationName = city], city)

\* the third method and the fallback of getLocationName
Approximate(s, near) ==
  IF \E i \in DOMAIN indianCities : indianCities[i] = near
  THEN Named(s, near)
  ELSE [s EXCEPT !.locationName = YourLocation]

\* the label getLocationName sets when the provider asked by o answers
\* city, None if it goes on to the second provider
LabelSet(o, city) ==
  IF Usable(city) THEN city
  ELSE IF o.stage = "provider1" THEN None
  ELSE IF \E i \in DOMAIN indianCities : indianCities[i] = o.near
       THEN o.near ELSE YourLocation

\* mutant: the first provider's usable answer does not end the resolution
getLocationNameAsksBoth(s, o, city) ==
  IF o.stage = "provider1"
  THEN AddOp(IF Usable(city) THEN Named(s, city) ELSE s,
             [o EXCEPT !.stage = "provider2"])
  ELSE IF Usable(city) THEN [Named(s, city) EXCEPT !.locationLoading = FALSE]
       ELSE [Approximate(s, o.near) EXCEPT !.locationLoading = FALSE]

\* mutant: locationLoading is cleared only at the end of the fallbacks
getLocationNameReturnsLoading(s, o, city) ==
  IF Usable(city) THEN Named(s, city)
  ELSE IF o.stage = "provider1"
       THEN AddOp(s, [o EXCEPT !.stage = "provider2"])
       ELSE [Approximate(s, o.near) EXCEPT !.locationLoading = FALSE]

\* getLocationName from the answer of the provider it awaits; when it
\* returns, the success callback that awaits it clears locationLoading
\* before any other event is handled
getLocationName(s, o, city) ==
  IF Usable(city) THEN [Named(s, city) EXCEPT !.locationLoading = FALSE]
  ELSE IF o.stage = "provider1"
       THEN AddOp(s, [o EXCEPT !.stage = "provider2"])
       ELSE [Approximate(s, o.near) EXCEPT !.locationLoading = FALSE]

ProviderAnswered(o, city) ==
  /\ Idle /\ BagIn(o, locOps) /\ o.stage \in {"provider1", "provider2"}
  /\ Do(getLocationName(DropOp(St, o), o, city),
        [op |-> "geocode", stage |-> o.stage, answer |-> city,
         label |-> LabelSet(o, city)], FALSE)

\* the selector is rendered by the service-unavailable page and by the
\* shops page
SelectorShown ==
  HomeShown /\ HomeView(St) \in {"service-unavailable", "shops"}

OpenLocationSelector ==
  /\ SelectorShown /\ ~showLocationSelector
  /\ Do([St EXCEPT !.showLocationSelector = TRUE],
        [op |-> "openSelector"], FALSE)

CloseLocationSelector ==
  /\ SelectorShown /\ showLocationSelector
  /\ Do([St EXCEPT !.showLocationSelector = FALSE],
        [op |-> "closeSelector"], FALSE)

\* a search result of the selector is picked
SelectLocation(location) ==
  /\ SelectorShown /\ showLocationSelector
  /\ Do([St EXCEPT !.locationName = location,
                   !.serviceAvailable =
                      isServiceAvailableInLocation(location),
                   !.showLocationSelector = FALSE],
        [op |-> "selectLocation", location |-> location], FALSE)

\* one of the two service locations the selector lists is picked
SelectServiceLocation(location) ==
  /\ SelectorShown /\ showLocationSelector
  /\ location \in {"Ramagiri",
                   "JNTUH College of Engineering-Manthani@Centenary Colony"}
  /\ Do([St EXCEPT !.locationName = location, !.serviceAvailable = TRUE,
                   !.showLocationSelector = FALSE],
        [op |-> "selectLocation", location |-> location], FALSE)

\* the permission alert over the shops page is dismissed
DismissLocationAlert ==
  /\ HomeShown /\ HomeView(St) = "shops" /\ showLocationPermissionAlert
  /\ Do([St EXCEPT !.showLocationPermissionAlert = FALSE],
        [op |-> "dismissAlert"], FALSE)

-----------------------------------------------------------------------------
(* Specifications *)

LoadRecords == [uid : Uids, kind : {"auth", "save"}]

\* the session resolves at start, profile loads settle, the user signs out
SessionNext ==
  \/ AuthInit
  \/ \E l \in LoadRecords, ok \in BOOLEAN : LoadDone(l, ok)
  \/ SignOut

\* the auth page's sign-in and sign-up of the users in Us
AuthPageNext(Kinds, Us) ==
  \/ \E kind \in Kinds, u \in Us, formOk \in BOOLEAN :
       AuthSubmit(kind, u, formOk)
  \/ \E ok \in BOOLEAN : AuthResolve(ok)

NavNext(Pages) ==
  \/ \E page \in Pages : HandleNavigation(page)
  \/ \E page \in Page : SetCurrentPage(page)
  \/ \E sh \in Shops : handleShopSelect(sh)

ProfileNext(Fields) ==
  \/ \E f \in Fields, v \in Texts : EditProfile(f, v)
  \/ SaveSubmit
  \/ \E ok \in BOOLEAN : SaveWrite(ok)

CheckoutNext ==
  \/ SubmitOrder
  \/ \E o \in BagToSet(orderOps), ok \in BOOLEAN : OrderWrite(o, ok)
  \/ \E o \in BagToSet(orderOps) : OrderTimer(o)

DeliveryNext ==
  \/ SetEditingDelivery
  \/ SaveDelivery
  \/ \E f \in {"name", "phone", "address"}, v \in Texts : EditDelivery(f, v)

CartNext ==
  \/ \E p \in Products : AddToCart(p)
  \/ \E p \in Products : AddToCartAsk(p)
  \/ \E answer \in BOOLEAN : ConfirmAnswer(answer)
  \/ \E pid \in ProductIds : RemoveFromCart(pid)
  \/ \E pid \in ProductIds, q \in -1 .. MaxQty : UpdateQuantity(pid, q)

\* the answers of the geocoding providers: place names that match the
\* allow-list in another casing, as a part, as an extension, or not at
\* all; the placeholder; no usable answer
CitySamples ==
  {"rAmAgIrI", "RAMAGIRI", "Rama", "Ramagiri Mandal", "MANTHANI Town",
   "Colony", "Peddapalli", "Mumbai"}
\* the positions getCurrentPosition reports: within a centroid's radius or
\* not
Positions == {"Mumbai", "Pune", None}

\* the location resolution: the answers of the permission query, of
\* getCurrentPosition and of the providers
ResolveNext(Cities, Nears) ==
  \/ \E o \in BagToSet(locOps), answer \in PermissionAnswers :
       PermissionAnswered(o, answer)
  \/ \E o \in BagToSet(locOps), near \in Nears : PositionFound(o, near)
  \/ \E o \in BagToSet(locOps), code \in PositionErrors :
       PositionError(o, code)
  \/ \E o \in BagToSet(locOps), city \in Cities \cup {None, YourLocation} :
       ProviderAnswered(o, city)

\* the location selector and the permission alert
SelectorNext ==
  \/ OpenLocationSelector
  \/ CloseLocationSelector
  \/ \E i \in DOMAIN indianLocations : SelectLocation(indianLocations[i])
  \/ \E location \in
         {"Ramagiri",
          "JNTUH College of Engineering-Manthani@Centenary Colony"} :
       SelectServiceLocation(location)
  \/ DismissLocationAlert

\* The cart store with the session of one user: every cart event, sign-in
\* and sign-out, reload.
CartInit ==
  InitWith({None, "u1"}, {WithFlag(UserDoc("v", "v", "v", "v", "v"), TRUE)},
           StoredSamples)
CartSpecNext ==
  \/ SessionNext
  \/ AuthPageNext({"signIn"}, {"u1"})
  \/ NavNext({"profile"})
  \/ CartNext
  \/ Restart
SpecCart == CartInit /\ [][CartSpecNext]_vars

\* The cart store of a user who is signed in when the application starts:
\* every cart event, orders placed from the checkout page, sign-out, reload.
OrderInit ==
  InitWith({"u1"}, {WithFlag(UserDoc("v", "v", "v", "v", "v"), TRUE)},
           StoredSamples)
OrderSpecNext ==
  \/ SessionNext
  \/ NavNext({"profile", "checkout"})
  \/ CartNext
  \/ CheckoutNext
  \/ Restart
SpecOrder == OrderInit /\ [][OrderSpecNext]_vars

\* The cart store used by an anonymous visitor: every cart event, reload.
CartOpsInit == InitWith({None}, {Null}, StoredSamples)
CartOpsNext ==
  \/ AuthInit
  \/ NavNext({"profile"})
  \/ CartNext
  \/ Restart
SpecCartOps == CartOpsInit /\ [][CartOpsNext]_vars

\* Navigation of a visitor who starts anonymous: every page request, the
\* sign-in of u1 and the sign-up of u2 on the auth page, sign-out; the cart
\* holds the line it was started with until a sign-out clears it.
NavInit ==
  InitWith({None},
           {WithFlag(UserDoc("v", "v", "v", "v", "v"), TRUE),
            WithFlag(UserDoc("v", "", "v", "v", "v"), TRUE)},
           {Key(Stringify(<<LineOf("p1", 1)>>))})
NavSpecNext ==
  \/ SessionNext
  \/ AuthPageNext({"signIn", "signUp"}, Uids)
  \/ \E ok \in BOOLEAN : SignUpWrite(ok)
  \/ NavNext({"orders", "profile", "checkout"})
SpecNav == NavInit /\ [][NavSpecNext]_vars

\* The profile page of a user who is signed in when the application starts
\* and whose user document lacks the phone, lacks the address, or is
\* complete: page requests, edits of these two fields, saves, sign-out.
ProfileInit ==
  InitWith({"u1"},
           {WithFlag(UserDoc("v", "", "v", "v", "v"), TRUE),
            WithFlag(UserDoc("v", "v", "", "v", "v"), FALSE),
            WithFlag(UserDoc("v", "v", "v", "v", "v"), TRUE)},
           {Key(Stringify(<<LineOf("p1", 1)>>))})
ProfileSpecNext ==
  \/ SessionNext
  \/ \E page \in {"profile", "checkout"} : HandleNavigation(page)
  \/ \E page \in Page : SetCurrentPage(page)
  \/ ProfileNext({"phone", "address"})
SpecProfile == ProfileInit /\ [][ProfileSpecNext]_vars

\* The remembered target over sign-out and sign-in: a user who is signed in
\* when the application starts, with a user document that lacks the phone;
\* page requests, edits of the phone, saves, sign-out, sign-in again.
ResumeInit ==
  InitWith({"u1"}, {WithFlag(UserDoc("v", "", "v", "v", "v"), TRUE)},
           {Key(Stringify(<<LineOf("p1", 1)>>))})
ResumeSpecNext ==
  \/ SessionNext
  \/ AuthPageNext({"signIn"}, {"u1"})
  \/ \E page \in {"profile", "orders", "checkout"} : HandleNavigation(page)
  \/ \E page \in Page : SetCurrentPage(page)
  \/ ProfileNext({"phone"})
SpecResume == ResumeInit /\ [][ResumeSpecNext]_vars

\* The checkout page of a user who is signed in when the application
\* starts, with a complete profile or one that lacks the phone: the
\* checkout request, the delivery details, orders, the other pages.
CheckoutInit ==
  InitWith({"u1"},
           {WithFlag(UserDoc("v", "v", "v", "v", "v"), TRUE),
            WithFlag(UserDoc("v", "", "v", "v", "v"), TRUE)},
           {Key(Stringify(<<LineOf("p1", 1)>>))})
CheckoutSpecNext ==
  \/ AuthInit
  \/ \E l \in LoadRecords, ok \in BOOLEAN : LoadDone(l, ok)
  \/ HandleNavigation("checkout")
  \/ \E page \in Page : SetCurrentPage(page)
  \/ CheckoutNext
  \/ DeliveryNext
SpecCheckout == CheckoutInit /\ [][CheckoutSpecNext]_vars

\* The session store with every sample of the user document, for a visitor
\* who starts anonymous or signed in: the first session report, profile
\* loads, sign-in on the auth page, sign-out.
SessionInit == InitWith({None, "u1"}, DocSamples, {NoKey})
SessionSpecNext ==
  \/ SessionNext
  \/ AuthPageNext({"signIn"}, {"u1"})
  \/ NavNext({"profile"})
SpecSession == SessionInit /\ [][SessionSpecNext]_vars

\* The location resolution of the home page, for a visitor who starts
\* anonymous or signed in, in a browser with or without geolocation: the
\* session resolves, the shops load, each external call answers in every
\* way.
LocationInit ==
  InitAt({None, "u1"}, {WithFlag(UserDoc("v", "v", "v", "v", "v"), TRUE)},
         {NoKey}, BOOLEAN)
LocationSpecNext ==
  \/ AuthInit
  \/ \E l \in LoadRecords, ok \in BOOLEAN : LoadDone(l, ok)
  \/ ShopsLoaded
  \/ ResolveNext(CitySamples, Positions)
SpecLocation == LocationInit /\ [][LocationSpecNext]_vars

\* The location resolution with every external call answering, for the
\* place names and positions that take each branch: the permission query
\* settles, getCurrentPosition calls one of its callbacks
\* (its timeout is set), each fetch settles
LocationFairNext ==
  \/ AuthInit
  \/ \E l \in LoadRecords, ok \in BOOLEAN : LoadDone(l, ok)
  \/ ResolveNext({"Rama", "Peddapalli"}, {"Mumbai", None})
SpecLocationFair ==
  /\ LocationInit /\ [][LocationFairNext]_vars
  /\ WF_vars(ResolveNext({"Rama", "Peddapalli"}, {"Mumbai", None}))

\* The home page as the visitor uses it: the location is resolved to a
\* serviceable place, to another place or not at all, the selector and the
\* alert are used, the visitor goes to the cart and back, the page is
\* reloaded.
HomeSpecNext ==
  \/ AuthInit
  \/ \E l \in LoadRecords, ok \in BOOLEAN : LoadDone(l, ok)
  \/ ShopsLoaded
  \/ ResolveNext({"Rama", "Peddapalli"}, {None})
  \/ SelectorNext
  \/ \E page \in {"home", "cart"} : SetCurrentPage(page)
  \/ Restart
SpecHome == LocationInit /\ [][HomeSpecNext]_vars

\* Sign-up and sign-in on the auth page with a profile store whose reads
\* all succeed: a visitor who starts anonymous, the sign-in of u1 and the
\* sign-up of u2 with every outcome of the identity provider and of the
\* record write, page requests, sign-out.
SignUpInit ==
  InitWith({None}, {WithFlag(UserDoc("v", "v", "v", "v", "v"), TRUE)},
           {NoKey})
SignUpSpecNext ==
  \/ AuthInit
  \/ \E l \in LoadRecords : LoadDone(l, TRUE)
  \/ SignOut
  \/ AuthPageNext({"signIn", "signUp"}, Uids)
  \/ \E ok \in BOOLEAN : SignUpWrite(ok)
  \/ NavNext({"orders", "profile", "checkout"})
SpecSignUp == SignUpInit /\ [][SignUpSpecNext]_vars

\* Navigation of one visitor through every kind of user event: started
\* anonymous, without an account or with one whose user document lacks the
\* phone; sign-up, sign-in, sign-out, page requests, edits of the phone,
\* saves, and every outcome of the calls they make.
LoginInit ==
  InitWith({None}, {WithFlag(UserDoc("v", "v", "v", "v", "v"), TRUE)},
           {Key(Stringify(<<LineOf("p1", 2)>>))})

LoginSpecNext ==
  \/ SessionNext
  \/ AuthPageNext({"signIn", "signUp"}, Uids)
  \/ \E ok \in BOOLEAN : SignUpWrite(ok)
  \/ NavNext({"profile"})
  \/ CartNext

\* the session and the cart: sign-in of the existing user, sign-up of a
\* new one and sign-out, around every cart operation
SpecLogin == LoginInit /\ [][LoginSpecNext]_vars

SettleInit ==
  \/ InitFrom({{}}, {None}, {Null},
              {Key(Stringify(<<LineOf("p1", 1)>>))}, {TRUE})
  \/ InitFrom({{"u1"}}, {None},
              {WithFlag(UserDoc("v", "", "v", "v", "v"), TRUE)},
              {Key(Stringify(<<LineOf("p1", 1)>>))}, {TRUE})
SettleSpecNext ==
  \/ SessionNext
  \/ AuthPageNext({"signIn", "signUp"}, {"u1"})
  \/ \E ok \in BOOLEAN : SignUpWrite(ok)
  \/ \E page \in {"profile", "orders", "checkout"} : HandleNavigation(page)
  \/ \E page \in Page : SetCurrentPage(page)
  \/ ProfileNext({"phone"})
SpecSettle == SettleInit /\ [][SettleSpecNext]_vars

-----------------------------------------------------------------------------
(* Properties of the cart store, checked under SpecCart, SpecOrder and
   SpecCartOps *)

NoDuplicates(its) ==
  \A i, j \in DOMAIN its : its[i].id = its[j].id => i = j

RECURSIVE SumOver(_, _)
SumOver(its, pids) ==
  IF pids = {} THEN 0
  ELSE LET pid == CHOOSE x \in pids : TRUE
       IN QuantityOf(its, pid) + SumOver(its, pids \ {pid})

Others(its, pid) ==
  LET Keep(it) == it.id # pid IN SelectSeq(its, Keep)

Count(seq, x) == Cardinality({i \in DOMAIN seq : seq[i] = x})

\* C3: in every reachable state all lines carry the same shop_id,
\* currentShopId is that shop_id, and currentShopId is none exactly when
\* the cart is empty.
C3_SingleShop ==
  /\ \A i \in DOMAIN items : items[i].shop_id = currentShopId
  /\ currentShopId = None <=> items = <<>>

C3_Witness ==
  /\ Len(items) = 2 /\ user # None /\ currentShopId = "s1"
  /\ last.op = "addToCart"

\* C4: addToCart of a product of another shop than the cart's: once the
\* user confirms, the cart holds exactly that product with quantity 1 and
\* the cart's shop is the product's; once the user declines, items, shop id
\* and persisted copy are as before; while the question is open nothing of
\* the cart has changed.
C4_ShopSwitch ==
  [][ /\ ConfirmAnswer(TRUE) =>
           /\ items' = <<NewLine(confirmFor)>>
           /\ items'[1].id = confirmFor.id /\ items'[1].quantity = 1
           /\ currentShopId' = confirmFor.shop_id
      /\ ConfirmAnswer(FALSE) =>
           items' = items /\ currentShopId' = currentShopId
           /\ stored' = stored
      /\ confirmFor' # Null =>
           items' = items /\ currentShopId' = currentShopId
           /\ stored' = stored ]_vars

C4_Witness ==
  /\ last.op = "confirmAnswer" /\ last.answer
  /\ Len(items) = 1 /\ items[1].shop_id = "s2" /\ currentShopId = "s2"

\* C5: a sign-out with a non-empty cart leaves the cart empty and no line
\* in the persisted copy, and alerts the sign-out notice exactly once; a
\* sign-out with an empty cart alerts no notice; no other event alerts it.
C5_SignOutClears ==
  /\ last.op = "signOut" =>
       /\ user = None
       /\ items = <<>> /\ Rehydrate(stored) = <<>>
       /\ Count(alerts, "cart-cleared") = IF last.cart THEN 1 ELSE 0
  /\ last.op # "signOut" => Count(alerts, "cart-cleared") = 0

C5_Witness == last.op = "signOut" /\ last.cart /\ alerts = <<"cart-cleared">>

\* C6: after addToCart calls only, for products of one shop, from a start
\* with an empty cart: no two lines share a product id, and getTotalItems()
\* is the sum of the quantities per product and the number of calls made.
C6_AddOnly ==
  addCalls >= 0 =>
    /\ NoDuplicates(items)
    /\ getTotalItems = SumOver(items, ProductIds)
    /\ getTotalItems = addCalls

C6_Witness == addCalls = 3 /\ Len(items) = 2 /\ last.op = "addToCart"

\* C7: updateQuantity(pid, q) removes the line when q <= 0, sets its
\* quantity to exactly q when q >= 1 and the line exists, changes nothing
\* when the line does not exist; the other lines are unchanged and every
\* line has quantity >= 1 afterwards.
C7_UpdateQuantity ==
  [][ \A pid \in ProductIds, q \in -1 .. MaxQty :
        (last'.op = "updateQuantity" /\ UpdateQuantity(pid, q)) =>
          /\ q <= 0 => ~HasLine(items', pid)
          /\ (q >= 1 /\ HasLine(items, pid)) =>
               /\ QuantityOf(items', pid) = q
               /\ Len(items') = Len(items)
          /\ ~HasLine(items, pid) => items' = items
          /\ Others(items', pid) = Others(items, pid)
          /\ \A i \in DOMAIN items' : items'[i].quantity >= 1 ]_vars

C7_Witness ==
  /\ last.op = "updateQuantity" /\ last.hit
  /\ Len(items) = 2 /\ items[2].quantity = MaxQty

\* C8: in every state the persisted cart, read back, is the in-memory item
\* list; a reload yields the same lines, order, quantities and shop id; a
\* start without the cart key yields the empty cart.
C8_PersistRoundTrip ==
  /\ [](Rehydrate(stored) = items)
  /\ []((last.op = "start" /\ ~last.key) => items = <<>>)
  /\ [][Restart => items' = items /\ currentShopId' = currentShopId]_vars

C8_Witness ==
  /\ last.op = "restart" /\ Len(items) = 2 /\ items[1].quantity = MaxQty

-----------------------------------------------------------------------------
(* Properties of navigation and session, checked under SpecNav,
   SpecProfile and SpecSession *)

Protected == {"profile", "orders"}

\* C1: an anonymous user asked handleNavigation for checkout and is still
\* on the auth page it led to: the step in which the sign-in succeeds shows
\* the cart page with the cart-review flag set.
C1_SignInResumesAtCart ==
  [][ (/\ asked = "checkout"
       /\ last'.op = "authResolve" /\ last'.kind = "signIn" /\ last'.ok)
      => (currentPage' = "cart" /\ showCartReviewMessage') ]_vars

\* the sign-in of a visitor who asked for checkout is under way; the auth
\* page is shown and nothing is remembered
C1_Witness ==
  /\ asked = "checkout" /\ currentPage = "auth" /\ user = None
  /\ authOp # Null /\ authOp.kind = "signIn"
  /\ intendedDestination = None /\ items # <<>>

\* C2: handleNavigation('checkout') by a signed-in user with an incomplete
\* profile shows the profile page and remembers checkout; a save submitted
\* after that with all five fields filled, once written and reloaded, shows
\* the cart page with the cart-review flag set and no remembered target.
C2_IncompleteProfileDetour ==
  [][ /\ (/\ last'.op = "handleNavigation" /\ last'.page = "checkout"
          /\ user # None /\ ~isProfileComplete)
         => (currentPage' = "profile" /\ intendedDestination' = "checkout")
      /\ (/\ last'.op = "loadDone" /\ last'.kind = "save"
          /\ saveOp # Null /\ saveOp.uid = user
          /\ FormComplete(saveOp.form) /\ saveOp.intended = "checkout")
         => (/\ currentPage' = "cart" /\ showCartReviewMessage'
             /\ intendedDestination' = None) ]_vars

C2_Witness ==
  /\ last.op = "loadDone" /\ last.kind = "save" /\ last.ok
  /\ user # None /\ isProfileComplete
  /\ currentPage = "cart" /\ showCartReviewMessage
  /\ intendedDestination = None

ProfileSpace ==
  [fullName : Texts, phone : Texts, address : Texts, city : Texts,
   pincode : Texts, email : {"mail"}, profileCompleted : BOOLEAN]

\* C9: isProfileComplete() is true exactly when a profile is loaded and
\* its fullName, phone, address, city and pincode are all non-empty, in
\* every reachable state and for every profile object, whatever its
\* profileCompleted flag.
C9_ProfileCompleteExact ==
  /\ isProfileComplete <=>
       (userProfile # Null /\ \A f \in ProfileFields : userProfile[f] # "")
  /\ ~ProfileComplete(Null)
  /\ \A up \in ProfileSpace :
       ProfileComplete(up) <=> \A f \in ProfileFields : up[f] # ""

C9_Witness ==
  /\ user # None /\ userProfile # Null
  /\ userProfile.profileCompleted /\ ~isProfileComplete
  /\ last.op = "loadDone"

\* C10: handleNavigation for profile or orders by an anonymous user shows
\* the auth page and leaves the requested page as intendedDestination; the
\* step in which a sign-in made there succeeds, and the step in which a
\* sign-up made there is written, shows the requested page.
C10_SignInResumesAtRequest ==
  [][ /\ (/\ last'.op = "handleNavigation" /\ last'.page \in Protected
          /\ user = None)
         => (currentPage' = "auth" /\ intendedDestination' = last'.page)
      /\ (/\ asked \in Protected
          /\ last'.op = "authResolve" /\ last'.kind = "signIn" /\ last'.ok)
         => currentPage' = asked
      /\ (/\ asked \in Protected
          /\ last'.op = "signUpWrite" /\ last'.ok)
         => currentPage' = asked ]_vars

\* the sign-up of a visitor who asked for orders has created the user and
\* is writing the user document; the home page is shown
C10_Witness ==
  /\ asked = "orders" /\ user # None /\ currentPage = "home"
  /\ authOp # Null /\ authOp.kind = "signUp" /\ authOp.stage = "write"
  /\ intendedDestination = None

C19_NoClearAtStart ==
  /\ [][ (last'.op = "authInit" \/ (isInitialLoad /\ ~isInitialLoad'))
         => items' = items /\ stored' = stored /\ alerts' = <<>> ]_vars
  /\ [][ Count(alerts', "cart-cleared") > 0
         => user # None /\ user' = None ]_vars

\* the session has resolved to anonymous over a rehydrated cart
C19_Witness ==
  /\ last.op = "authInit" /\ user = None /\ ~loading /\ ~isInitialLoad
  /\ items # <<>> /\ Rehydrate(stored) = items /\ alerts = <<>>

-----------------------------------------------------------------------------
(* Properties of the home page, checked under SpecLocation *)

\* two characters are the same letter, whatever their case
SameLetter(a, b) ==
  \/ a = b
  \/ \E i \in DOMAIN UpperCase : {a, b} = {UpperCase[i], LowerCase[i]}

\* part occurs in cs at some offset, letter by letter, whatever the case
Contains(cs, part) ==
  \E k \in 0 .. (Len(cs) - Len(part)) :
    \A j \in 1 .. Len(part) : SameLetter(cs[k + j], part[j])

AllowListed(label) ==
  \E i \in DOMAIN availableCities :
    \/ Contains(Chars(label), Chars(availableCities[i]))
    \/ Contains(Chars(availableCities[i]), Chars(label))

\* C12: when a location resolution names a place, serviceAvailable becomes
\* true exactly if, whatever the case of the letters, the name contains an
\* allow-listed place name or an allow-listed place name contains it: true
\* for Ramagiri in any casing and for a part or an extension of an
\* allow-listed name, false for Mumbai.
C12_ServiceAvailability ==
  [][ (last'.op = "geocode" /\ last'.label \notin {None, YourLocation})
      => /\ locationName' = last'.label
         /\ serviceAvailable' = AllowListed(last'.label)
         /\ last'.label \in {"rAmAgIrI", "RAMAGIRI", "Rama",
                             "Ramagiri Mandal", "MANTHANI Town", "Colony"}
              => serviceAvailable'
         /\ last'.label \in {"Mumbai", "Pune", "Peddapalli"}
              => ~serviceAvailable' ]_vars

C12_Witness ==
  /\ last.op = "geocode" /\ last.label = "Rama"
  /\ locationName = "Rama" /\ serviceAvailable

Sentinels == {AccessDenied, Unavailable, YourLocation}

\* C13: while the label is the denied, the unavailable or the unresolved
\* sentinel, the home page never shows the service-unavailable page,
\* whatever serviceAvailable holds; once the shops and the session are
\* loaded it shows the location-permission page for the denied label and
\* the shops page for the other two; and a step that brings the denied or
\* the unavailable label to a signed-in session raises the permission
\* alert.
C13_SentinelViews ==
  /\ [](HomeMounted(St) /\ locationName \in Sentinels
          => /\ HomeView(St) # "service-unavailable"
             /\ HomeView(St) # "loader"
                  => HomeView(St) = IF locationName = AccessDenied
                                    THEN "permission" ELSE "shops")
  /\ [][ (/\ HomeMounted(St)' /\ locationName' # locationName
           /\ locationName' \in {AccessDenied, Unavailable}
           /\ user' # None /\ ~loading')
         => showLocationPermissionAlert' ]_vars

\* a sentinel label shown while an earlier resolution has left
\* serviceAvailable false
C13_Witness ==
  /\ HomeMounted(St) /\ locationName = Unavailable /\ ~serviceAvailable
  /\ HomeView(St) = "shops"

\* C13 as stated: with a sentinel label the home page, once loaded, shows
\* permission-needed UI (the location-permission page, or the permission
\* alert over the shops) and never the service-unavailable page.
C13_SentinelPermissionUI ==
  HomeMounted(St) /\ locationName \in Sentinels /\ HomeView(St) # "loader"
    => /\ HomeView(St) # "service-unavailable"
       /\ \/ HomeView(St) = "permission"
          \/ HomeView(St) = "shops" /\ showLocationPermissionAlert

\* the labels a resolution ends with: a place name, or a sentinel
EndLabels == CitySamples \cup (Positions \ {None}) \cup Sentinels

\* C17: every location resolution in flight is followed by a state with
\* no resolution in flight, and whenever none is in flight locationLoading
\* is false and the label is a resolved place name, denied, unavailable or
\* the unresolved placeholder, whatever the permission query,
\* getCurrentPosition and the two providers answer.
C17_ResolutionEnds ==
  /\ (locOps # EmptyBag) ~> (locOps = EmptyBag)
  /\ [](locOps = EmptyBag
          => ~locationLoading /\ locationName \in EndLabels)

\* both providers and the centroid table have yielded nothing
C17_Witness ==
  /\ last.op = "geocode" /\ last.stage = "provider2"
  /\ last.label = YourLocation /\ locOps = EmptyBag
  /\ ~locationLoading /\ locationName = YourLocation

-----------------------------------------------------------------------------
(* Properties of the session store after sign-out, checked under SpecSession *)

\* C14: from the completion of signOut until the next sign-in or sign-up
\* that succeeds (that is, while the identity provider holds no user), the
\* session's identity is none and its profile is none.
C14_SignedOutIsEmpty ==
  fbUser = None => user = None /\ userProfile = Null

\* the sign-out has completed while a profile load is still in flight
C14_Witness ==
  /\ last.op = "signOut" /\ fbUser = None /\ user = None
  /\ userProfile = Null /\ loads # EmptyBag

-----------------------------------------------------------------------------
(* Properties of the order submission, checked under SpecOrder *)

\* C15: the step in which the order write succeeds leaves the cart empty,
\* in memory and in the persisted copy, with the timer pending whose step
\* shows the orders page; the step in which the write fails leaves the
\* cart, its shop id and the persisted copy as they were, leaves the page
\* (checkout) as it was, raises the failure notice and starts no other
\* write.
C15_OrderOutcome ==
  /\ [][ (last'.op = "orderWrite" /\ last'.ok)
         => /\ items' = <<>> /\ currentShopId' = None
            /\ Rehydrate(stored') = <<>>
            /\ \E o \in BagToSet(orderOps') : o.stage = "timer" ]_vars
  /\ [][ last'.op = "orderTimer" => currentPage' = "orders" ]_vars
  /\ [][ (last'.op = "orderWrite" /\ ~last'.ok)
         => /\ items' = items /\ currentShopId' = currentShopId
            /\ stored' = stored /\ currentPage' = currentPage
            /\ alerts' = <<"order-failed">>
            /\ BagCardinality(orderOps') = BagCardinality(orderOps) - 1 ]_vars

\* a failed write, on the checkout page with the cart as it was
C15_Witness ==
  /\ last.op = "orderWrite" /\ ~last.ok /\ currentPage = "checkout"
  /\ items # <<>> /\ Rehydrate(stored) = items
  /\ alerts = <<"order-failed">>

-----------------------------------------------------------------------------
(* Properties of sign-up and sign-in, checked under SpecSignUp *)

\* C16: when signUp returns success the session is authenticated and its
\* profile is not complete; and once the profile loads started by the auth
\* callback have finished too, in whichever order with the record write,
\* the profile holds the fullName and the email given at sign-up and
\* empty phone, address, city and pincode.
C16_SignUpProfile ==
  last.op = "signUpWrite" /\ last.ok
    => /\ user # None /\ ~isProfileComplete
       /\ loads = EmptyBag
            => /\ userProfile # Null
               /\ userProfile.fullName = "v"
               /\ userProfile.email = Email(user)
               /\ userProfile.phone = "" /\ userProfile.address = ""
               /\ userProfile.city = "" /\ userProfile.pincode = ""

\* signUp has returned success with the profile loads still in flight
C16_Witness ==
  /\ last.op = "signUpWrite" /\ last.ok /\ user # None
  /\ loads # EmptyBag /\ docs[user] = SignUpDoc(Email(user), "v")

\* C20: when signIn or signUp has returned an error to the auth page, the
\* session is anonymous.
C20_ErrorMeansAnonymous ==
  last.op \in {"authResolve", "signUpWrite"} /\ ~last.ok => user = None

\* the identity provider has rejected the credentials
C20_Witness ==
  /\ last.op = "authResolve" /\ ~last.ok /\ user = None
  /\ alerts = <<"auth-error">>

-----------------------------------------------------------------------------
(* Properties of the checkout request, checked under SpecCheckout *)

\* the user document of the session's user has the five fields non-empty
RecordComplete ==
  /\ user # None /\ docs[user] # Null
  /\ ProfileComplete(ProfileFromDoc(docs[user]))

\* C18: a checkout request made while an identity is present and the
\* user's profile record has its five fields non-empty shows checkout and
\* remembers no target, also while the profile load has not finished.
C18_CompleteGoesToCheckout ==
  [][ (last'.op = "handleNavigation" /\ last'.page = "checkout"
         /\ RecordComplete)
      => currentPage' = "checkout" /\ intendedDestination' = None ]_vars

\* the same request once the profile is loaded
C18_Witness ==
  /\ last.op = "handleNavigation" /\ last.page = "checkout"
  /\ RecordComplete /\ isProfileComplete /\ currentPage = "checkout"

-----------------------------------------------------------------------------
(* Properties of the profile save, checked under SpecProfile *)

\* C21: the step in which the reload that follows the write of a save
\* with all five fields filled finishes, and onProfileComplete is called,
\* for the user who saved, leaves isProfileComplete() true, whether the
\* reload succeeded or failed.
C21_SaveCompletesSession ==
  [][ (/\ last'.op = "loadDone" /\ last'.kind = "save"
       /\ saveOp # Null /\ saveOp.isComplete /\ saveOp.uid = user)
      => (user' = user /\ ProfileComplete(userProfile')) ]_vars

\* such a save has been reloaded and onProfileComplete has shown home
C21_Witness ==
  /\ last.op = "loadDone" /\ last.kind = "save" /\ last.ok
  /\ user # None /\ isProfileComplete /\ saveOp = Null
  /\ currentPage = "home" /\ docs[user].profileCompleted

\* the session holds a user whose loaded profile has its five fields filled
Complete(u, up) == u # None /\ ProfileComplete(up)

-----------------------------------------------------------------------------
(* Properties of getLocationName, checked under SpecLocation *)

\* the resolutions in flight that await the given call
Awaiting(ops, stage) ==
  BagCardinality([o \in {x \in BagToSet(ops) : x.stage = stage} |-> ops[o]])

\* C23: when a provider answers a resolution, a usable place name becomes
\* the label and ends the resolution, whichever provider gave it and
\* whatever the centroid table holds for the position; an unusable answer
\* of the first provider asks the second and leaves the label alone; an
\* unusable answer of the second ends the resolution with the centroid's
\* name if the position is within one and with the placeholder if not; and
\* the second provider is asked in no other step.
C23_SequentialFallback ==
  /\ [][ last'.op = "geocode"
         => \E o \in BagToSet(locOps) :
              LET rest == locOps (-) SetToBag({o})
                  city == last'.answer
                  centroid ==
                    \E i \in DOMAIN indianCities : indianCities[i] = o.near
              IN /\ o.stage = last'.stage
                 /\ IF city # None /\ city # YourLocation
                    THEN locOps' = rest /\ locationName' = city
                    ELSE IF o.stage = "provider1"
                    THEN /\ locOps' =
                              rest (+)
                                SetToBag({[o EXCEPT !.stage = "provider2"]})
                         /\ locationName' = locationName
                         /\ serviceAvailable' = serviceAvailable
                    ELSE /\ locOps' = rest
                         /\ locationName' =
                              IF centroid THEN o.near ELSE YourLocation ]_vars
  /\ [][ Awaiting(locOps', "provider2") > Awaiting(locOps, "provider2")
         => /\ last'.op = "geocode" /\ last'.stage = "provider1"
            /\ last'.answer \in {None, YourLocation} ]_vars

\* both providers have failed for a position within a centroid's radius
C23_Witness ==
  /\ last.op = "geocode" /\ last.stage = "provider2" /\ last.answer = None
  /\ locationName = "Pune" /\ ~serviceAvailable /\ ~locationLoading
  /\ locOps = EmptyBag

-----------------------------------------------------------------------------
(* Properties of the settling of navigation, checked under SpecSettle *)

\* the effect passes a render makes from s until nothing changes
RECURSIVE Passes(_)
Passes(s) == IF Pass(s) = s THEN 0 ELSE 1 + Passes(Pass(s))

\* the most passes the render of an event's handler makes from the state
\* shown: a page request, a page button, a sign-in or sign-up that
\* succeeds, a sign-out, the first session report, the end of a load
EventPasses(k) ==
  /\ \A page \in {"profile", "orders", "checkout"} :
       Passes(handleNavigation(St, page)) <= k
  /\ \A page \in Page : Passes([St EXCEPT !.currentPage = page]) <= k
  /\ \A u \in Uids : Passes(SignedIn(St, u)) <= k
  /\ Passes(AuthListener([St EXCEPT !.fbUser = None], None)) <= k
  /\ Passes(AuthListener(St, fbUser)) <= k
  /\ \A l \in BagToSet(loads), ok \in BOOLEAN :
       Passes(LoadContinue(FinishLoad(St, l, ok), l)) <= k

\* the events that no user makes: the calls in flight that settle
Completions ==
  {"authInit", "loadDone", "authResolve", "signUpWrite", "saveWrite"}

\* the calls in flight, each weighed above the calls its settling starts
Work ==
  (IF AuthReady THEN 0 ELSE 3)
  + (IF authOp = Null THEN 0 ELSE IF authOp.stage = "auth" THEN 4 ELSE 1)
  + (IF saveOp # Null /\ saveOp.stage = "write" THEN 2 ELSE 0)
  + BagCardinality(loads)

\* C24: every state shown is one the effects leave as it is, and the
\* render of each event reaches it within two passes of the effects; each
\* event that is not the user's settles a call in flight and lowers the
\* weight of the calls in flight, so only finitely many of them follow a
\* user event; a checkout request of a user whose profile is not complete
\* shows profile and raises the notice once, and no event raises it twice.
C24_NavigationSettles ==
  /\ [](Pass(St) = St)
  /\ [](EventPasses(2))
  /\ [][ last'.op \in Completions => Work' < Work ]_vars
  /\ [][ (/\ last'.op = "handleNavigation" /\ last'.page = "checkout"
          /\ user # None /\ ~isProfileComplete)
         => /\ currentPage' = "profile"
            /\ Count(alerts', "complete-profile") = 1 ]_vars
  /\ [](Count(alerts, "complete-profile") <= 1)

\* the checkout request of a user who signed up and has not filled the
\* profile has settled on the profile page
C24_Witness ==
  /\ last.op = "handleNavigation" /\ last.page = "checkout"
  /\ user # None /\ docs[user] = SignUpDoc(Email(user), "v")
  /\ currentPage = "profile" /\ alerts = <<"complete-profile">>
  /\ intendedDestination = "checkout" /\ Pass(St) = St /\ Work = 0

-----------------------------------------------------------------------------
(* Properties of the remembered target, checked under SpecResume *)

\* C25: while a target is remembered the auth page or the profile page is
\* shown; a step that shows another page leaves no target remembered.
C25_TargetOnlyInDetour ==
  intendedDestination # None => currentPage \in {"auth", "profile"}

\* the detour of a checkout request to the profile page is in progress
C25_Witness ==
  /\ intendedDestination = "checkout" /\ currentPage = "profile"
  /\ last.op = "handleNavigation" /\ last.page = "checkout"
  /\ user # None /\ userProfile # Null /\ ~isProfileComplete

-----------------------------------------------------------------------------
(* Properties of the order submission's guards, checked under SpecCheckout *)

\* the state shown, with every session, cart shop, delivery form, editing
\* flag and profile the checkout page can be rendered with
SubmitInputs ==
  { [St EXCEPT !.user = u, !.currentShopId = sh, !.formData = fd,
               !.isEditingDelivery = e, !.userProfile = up] :
      u \in {None, "u1"}, sh \in {None, "s1"},
      fd \in [name : Texts, phone : Texts, address : Texts],
      e \in BOOLEAN,
      up \in {Null, ProfileFromDoc(UserDoc("v", "v", "v", "v", "v")),
              ProfileFromDoc(UserDoc("v", "", "v", "v", "v"))} }

\* an identity, a shop id and the three delivery details are there
Orderable(u, sh, d) ==
  /\ u # None /\ sh # None
  /\ d.name # "" /\ d.phone # "" /\ d.address # ""

\* C26: handleSubmit, on every input, starts the write of an order exactly
\* if an identity is present, the cart has a shop id and the delivery name,
\* phone and address it uses are non-empty, the order carrying these, and
\* otherwise starts none, leaves the cart alone and raises one notice; a
\* write is started in the step of such a submission only, a submission
\* that is not such leaves the writes in flight and the cart with its
\* persisted copy as they were, and every order written carries an
\* identity, a shop id and non-empty delivery details.
C26_OrderOnlyWhenValid ==
  /\ [](\A x \in SubmitInputs :
          LET h == handleSubmit(x)
              d == Delivery(x)
          IN IF Orderable(x.user, x.currentShopId, d)
             THEN /\ h.orderOps =
                       x.orderOps (+)
                         SetToBag({[stage |-> "write", mounted |-> TRUE,
                                    order |->
                                      [userId |-> x.user,
                                       storeId |-> x.currentShopId,
                                       customerName |-> d.name,
                                       customerPhone |-> d.phone,
                                       deliveryAddress |-> d.address]]})
                  /\ h.alerts = <<>>
             ELSE /\ h.orderOps = x.orderOps /\ h.items = x.items
                  /\ h.stored = x.stored /\ Len(h.alerts) = 1)
  /\ [][ Awaiting(orderOps', "write") > Awaiting(orderOps, "write")
         => /\ last'.op = "submitOrder"
            /\ Orderable(user, currentShopId, Delivery(St)) ]_vars
  /\ [][ (/\ last'.op = "submitOrder"
          /\ ~Orderable(user, currentShopId, Delivery(St)))
         => /\ orderOps' = orderOps /\ items' = items /\ stored' = stored
            /\ currentShopId' = currentShopId /\ Len(alerts') = 1 ]_vars
  /\ [][ (last'.op = "orderWrite" /\ last'.ok)
         => Orderable(last'.order.userId, last'.order.storeId,
                      [name |-> last'.order.customerName,
                       phone |-> last'.order.customerPhone,
                       address |-> last'.order.deliveryAddress]) ]_vars

\* a submission made after an earlier order has emptied the cart: nothing
\* is written
C26_Witness ==
  /\ last.op = "submitOrder" /\ alerts = <<"no-items">>
  /\ currentPage = "checkout" /\ user # None /\ items = <<>>
  /\ Awaiting(orderOps, "write") = 0

-----------------------------------------------------------------------------
(* Properties of the protected pages, checked under SpecOrder *)

\* C27: while the profile, orders or checkout page is shown an identity is
\* present, after every sequence of page requests, sign-outs and order
\* submissions, the timer of a placed order included.
C27_ProtectedNeedsIdentity ==
  currentPage \in {"profile", "orders", "checkout"} => user # None

\* the timer of a placed order has shown the orders page to its user
C27_Witness ==
  /\ last.op = "orderTimer" /\ currentPage = "orders" /\ user # None
  /\ items = <<>> /\ orderOps = EmptyBag

-----------------------------------------------------------------------------
(* Properties of the profile held, checked under SpecNav *)

\* C28: without an identity the session holds no profile, and a step in
\* which a profile load installs a profile is the end of a load that was
\* started for the identity the session holds.
C28_ProfileOfCurrentIdentity ==
  /\ [](user = None => userProfile = Null)
  /\ [][ (last'.op = "loadDone" /\ userProfile' # userProfile)
         => \E l \in BagToSet(loads) :
              /\ loads' = loads (-) SetToBag({l})
              /\ l.uid = user /\ user' = user ]_vars

\* the record written by a sign-up has been loaded for the user who
\* signed up
C28_Witness ==
  /\ last.op = "loadDone" /\ last.ok /\ user = "u2"
  /\ docs["u2"] # Null /\ userProfile = ProfileFromDoc(docs["u2"])
  /\ loads = EmptyBag

-----------------------------------------------------------------------------
(* Properties of the cart across a login, checked under SpecLogin *)

CartEvents ==
  {"addToCart", "addToCartAsk", "confirmAnswer", "removeFromCart",
   "updateQuantity"}

\* C29: a step in which the session goes from anonymous to authenticated
\* leaves the cart's lines, its shop id and the stored copy as they were and
\* raises no 'cart cleared' alert; and once the stored cart has been read, a
\* step that is no cart operation changes the lines, the shop id or the
\* stored copy only if it takes the session from authenticated to anonymous.
C29_LoginKeepsCart ==
  /\ [][ (user = None /\ user' # None)
         => /\ items' = items /\ currentShopId' = currentShopId
            /\ stored' = stored
            /\ Count(alerts', "cart-cleared") = Count(alerts, "cart-cleared")
       ]_vars
  /\ [][ (/\ ~isInitialLoad /\ last'.op \notin CartEvents
          /\ \/ items' # items \/ currentShopId' # currentShopId
             \/ stored' # stored)
         => (user # None /\ user' = None) ]_vars

\* a new user has signed up over a cart of two lines, one of them added
\* while anonymous, and the cart and its stored copy still hold both
C29_Witness ==
  /\ last.op = "authResolve" /\ user = "u2" /\ previousUserRef = "u2"
  /\ Len(items) = 2 /\ currentShopId = "s1"
  /\ stored = Key(Stringify(items))

-----------------------------------------------------------------------------
(* Properties of the location selector, checked under SpecHome *)

ResolutionEvents == {"permission", "position", "geocode"}

\* C30: after a pick in the location selector that set an allow-listed
\* label and serviceAvailable true, a step of a location resolution (the
\* answer of the permission query, of getCurrentPosition or of a provider)
\* leaves the label as picked and serviceAvailable true.
C30_PickIsKept ==
  [][ (/\ last.op = "selectLocation" /\ serviceAvailable
       /\ AllowListed(locationName)
       /\ last'.op \in ResolutionEvents)
      => (locationName' = locationName /\ serviceAvailable') ]_vars

\* Ramagiri has been picked in the selector while a resolution is in flight
C30_Witness ==
  /\ last.op = "selectLocation" /\ locationName = "Ramagiri"
  /\ serviceAvailable /\ ~showLocationSelector /\ locOps # EmptyBag

=============================================================================
